---- MODULE Spec2Model ----
(***************************************************************************)
(* Backend side of the MariaDB protocol module of MaxScale                 *)
(* (server/modules/protocol/MariaDB/mariadb_backend.cc): the reply state   *)
(* machine, the packet loop, the write path and the authentication driver. *)
(*                                                                         *)
(* A packet is the record [len, data]: len is the payload length of the    *)
(* header and data the payload bytes (for a packet of the maximum length   *)
(* only the leading bytes, the only ones the code reads).                  *)
(***************************************************************************)
EXTENDS Integers, Sequences, FiniteSets, TLC

(* ---------------------------------------------------------------------- *)
(* Program constants                                                       *)
(* ---------------------------------------------------------------------- *)
MYSQL_HEADER_LEN == 4
MYSQL_EOF_PACKET_LEN == 9
GW_MYSQL_MAX_PACKET_LEN == 16777215
MYSQL_REPLY_OK == 0
MYSQL_REPLY_ERR == 255
MYSQL_REPLY_EOF == 254
MYSQL_REPLY_LOCAL_INFILE == 251
SERVER_MORE_RESULTS_EXIST == 8
MXS_COM_QUIT == 1
MXS_COM_QUERY == 3
MXS_COM_FIELD_LIST == 4
MXS_COM_STATISTICS == 9
MXS_COM_PING == 14
MXS_COM_CHANGE_USER == 17
MXS_COM_BINLOG_DUMP == 18
MXS_COM_STMT_PREPARE == 22
MXS_COM_STMT_EXECUTE == 23
MXS_COM_STMT_SEND_LONG_DATA == 24
MXS_COM_STMT_CLOSE == 25
MXS_COM_STMT_FETCH == 28
SERVER_SESSION_STATE_CHANGED == 16384
SESSION_TRACK_SYSTEM_VARIABLES == 0
SESSION_TRACK_SCHEMA == 1
SESSION_TRACK_STATE_CHANGE == 2
SESSION_TRACK_GTIDS == 3
SESSION_TRACK_TRANSACTION_CHARACTERISTICS == 4
SESSION_TRACK_TRANSACTION_TYPE == 5
ER_HOST_IS_BLOCKED == 1129
MYSQL_REPLY_AUTHSWITCHREQUEST == 254
GW_MYSQL_SCRAMBLE_SIZE == 20
GW_SCRAMBLE_LENGTH_323 == 8
MYSQL_AUTH_PACKET_BASE_SIZE == 36
GW_MYSQL_CAPABILITIES_CONNECT_WITH_DB == 8
GW_MYSQL_CAPABILITIES_SSL == 2048
GW_MYSQL_CAPABILITIES_MULTI_STATEMENTS == 65536
GW_MYSQL_CAPABILITIES_PLUGIN_AUTH == 524288
GW_MYSQL_CAPABILITIES_CONNECT_ATTRS == 1048576
GW_MYSQL_CAPABILITIES_SESSION_TRACK == 8388608
\* CLIENT_MYSQL, FOUND_ROWS, LONG_FLAG, CONNECT_WITH_DB, LOCAL_FILES,
\* PROTOCOL_41, TRANSACTIONS, SECURE_CONNECTION, MULTI_STATEMENTS,
\* MULTI_RESULTS, PS_MULTI_RESULTS, PLUGIN_AUTH, CONNECT_ATTRS
GW_MYSQL_CAPABILITIES_CLIENT == 2073231
GW_MYSQL_PROTOCOL_VERSION == 10

(* ---------------------------------------------------------------------- *)
(* Bounds of the model                                                     *)
(* ---------------------------------------------------------------------- *)
MaxRows == 2
MaxFieldCounts == 1

(* ReplyState and AuthState *)
ReplyStates == {"START", "DONE", "RSET_COLDEF", "RSET_COLDEF_EOF", "RSET_ROWS", "PREPARE"}
AuthStates == {"CONNECTED", "RESPONSE_SENT", "COMPLETE", "FAIL", "FAIL_HANDSHAKE"}

VARIABLES
    m_reply,            \* the Reply object of the connection
    m_num_coldefs,      \* column definitions still expected
    m_ps_packets,       \* packets still expected after a COM_STMT_PREPARE OK
    m_opening_cursor,   \* COM_STMT_EXECUTE asked for a cursor
    m_skip_next,        \* the previous backend packet had the maximum length
    m_large_query,      \* the previous client packet had the maximum length
    m_changing_user,    \* a client COM_CHANGE_USER is in progress
    m_collect_result,
    m_track_state,
    load_active,        \* session_is_load_active(m_session)
    m_auth_state,
    m_ignore_replies,
    m_stored_query,
    m_scramble,         \* the 20 bytes of scramble the backend sent last
    server_capabilities, \* the capabilities the backend announced in its handshake
    m_client_data,      \* the MYSQL_session of the session the connection serves
    m_upstream,         \* the replies handed to m_upstream->clientReply, in order
    m_collectq,         \* the packets of a result that is being collected
    writeq,             \* dcb->writeq: buffers appended for the backend
    delayq,             \* dcb->delayq: buffers held until authentication ends
    readq,              \* the DCB's read queue: the bytes of an incomplete packet
    stream,             \* the bytes the backend has sent that have not arrived yet
    h_stream,           \* history: all the bytes the backend sends
    h_cmd,              \* history: the command the backend is answering
    h_emitted,          \* history: the bytes process_packets has returned so far
    dcb,                \* the backend DCB: its server, session, TLS state and events
    h_event,            \* history: the last event on the DCB and what it found
    h_accepted,         \* history: the client buffers written before authentication ended
    srv,                \* the backend server: where it is in the reply it is sending
    h_req,              \* history: the reply in progress, as the server sends it
    h_last              \* history: the last operation and what it saw

progvars == <<m_reply, m_num_coldefs, m_ps_packets, m_opening_cursor, m_skip_next,
              m_large_query, m_changing_user, m_collect_result, m_track_state,
              load_active, m_auth_state, m_ignore_replies, m_stored_query,
              m_scramble, server_capabilities, m_client_data, m_upstream, m_collectq,
              writeq, delayq>>
netvars == <<readq, stream, h_stream, h_cmd, h_emitted>>
dcbvars == <<dcb, h_event, h_accepted>>
vars == <<progvars, netvars, dcbvars, srv, h_req, h_last>>

(* ---------------------------------------------------------------------- *)
(* Byte helpers                                                            *)
(* ---------------------------------------------------------------------- *)
\* x & bit, for bit a power of two
HasBit(x, bit) == (x \div bit) % 2 = 1

\* little-endian 16-bit value at data[i], data[i+1]
U16(data, i) == data[i] + 256 * data[i + 1]

\* number of bytes skip_encoded_int advances over at data[i]
skip_encoded_int(data, i) ==
    CASE data[i] = 252 -> 3
      [] data[i] = 253 -> 4
      [] data[i] = 254 -> 9
      [] OTHER -> 1

\* value get_encoded_int reads at data[i]
get_encoded_int(data, i) ==
    CASE data[i] = 252 -> data[i + 1] + 256 * data[i + 2]
      [] data[i] = 253 -> data[i + 1] + 256 * data[i + 2] + 65536 * data[i + 3]
      [] data[i] = 254 -> data[i + 1] + 256 * data[i + 2] + 65536 * data[i + 3]
                          + 16777216 * (data[i + 4] + 256 * (data[i + 5] + 256 * (data[i + 6]
                          + 256 * (data[i + 7] + 256 * data[i + 8]))))
      [] OTHER -> data[i]

\* bytes get_encoded_str and skip_encoded_str advance over at data[i]
skip_encoded_str(data, i) == skip_encoded_int(data, i) + get_encoded_int(data, i)

\* string get_encoded_str reads at data[i]
get_encoded_str(data, i) ==
    LET start == i + skip_encoded_int(data, i)
    IN SubSeq(data, start, start + get_encoded_int(data, i) - 1)

rcap_type_required(capabilities, type) == type \in capabilities

\* is_last_eof: the status of an EOF packet has no SERVER_MORE_RESULTS_EXIST
is_last_eof(data) == ~HasBit(U16(data, 4), SERVER_MORE_RESULTS_EXIST)

mxs_mysql_command_will_respond(cmd) ==
    /\ cmd # MXS_COM_STMT_SEND_LONG_DATA
    /\ cmd # MXS_COM_QUIT
    /\ cmd # MXS_COM_STMT_CLOSE

(* ---------------------------------------------------------------------- *)
(* The Reply object                                                        *)
(* ---------------------------------------------------------------------- *)
NoError == [code |-> 0, sql_state |-> <<>>, message |-> <<>>]

\* Reply::clear(): everything back to the value of a fresh Reply
Reply_clear ==
    [command |-> 0, state |-> "DONE", error |-> NoError, rows |-> 0, warnings |-> 0,
     field_counts |-> <<>>, is_ok |-> FALSE, generated_id |-> 0, param_count |-> 0,
     variables |-> {}]

\* Reply::set_variable(key, value): variables is the set of the pairs of the map
Reply_set_variable(r, key, value) ==
    [r EXCEPT !.variables = {v \in @ : v[1] # key} \cup {<<key, value>>}]

\* Error::operator bool
Error_present(e) == e.code # 0

\* Reply::is_complete()
Reply_is_complete(r) == r.state = "DONE"

\* the connection object as a record of its members
Self ==
    [m_reply |-> m_reply, m_num_coldefs |-> m_num_coldefs, m_ps_packets |-> m_ps_packets,
     m_opening_cursor |-> m_opening_cursor, m_skip_next |-> m_skip_next,
     m_large_query |-> m_large_query, m_changing_user |-> m_changing_user,
     m_collect_result |-> m_collect_result, m_track_state |-> m_track_state,
     load_active |-> load_active, m_auth_state |-> m_auth_state,
     m_ignore_replies |-> m_ignore_replies, m_stored_query |-> m_stored_query,
     m_scramble |-> m_scramble, server_capabilities |-> server_capabilities,
     m_client_data |-> m_client_data,
     m_upstream |-> m_upstream, m_collectq |-> m_collectq,
     writeq |-> writeq, delayq |-> delayq,
     capabilities |-> dcb.capabilities]

Commit(s) ==
    /\ m_reply' = s.m_reply
    /\ m_num_coldefs' = s.m_num_coldefs
    /\ m_ps_packets' = s.m_ps_packets
    /\ m_opening_cursor' = s.m_opening_cursor
    /\ m_skip_next' = s.m_skip_next
    /\ m_large_query' = s.m_large_query
    /\ m_changing_user' = s.m_changing_user
    /\ m_collect_result' = s.m_collect_result
    /\ m_track_state' = s.m_track_state
    /\ load_active' = s.load_active
    /\ m_auth_state' = s.m_auth_state
    /\ m_ignore_replies' = s.m_ignore_replies
    /\ m_stored_query' = s.m_stored_query
    /\ m_scramble' = s.m_scramble
    /\ server_capabilities' = s.server_capabilities
    /\ m_client_data' = s.m_client_data
    /\ m_upstream' = s.m_upstream
    /\ m_collectq' = s.m_collectq
    /\ writeq' = s.writeq
    /\ delayq' = s.delayq

set_reply_state(s, state) == [s EXCEPT !.m_reply.state = state]

(* ---------------------------------------------------------------------- *)
(* The reply state machine                                                 *)
(* ---------------------------------------------------------------------- *)
\* mutant: an error starts the reply again
update_error_restart(s, data, i) ==
    [s EXCEPT !.m_reply.error =
                 [code |-> U16(data, i),
                  sql_state |-> SubSeq(data, i + 3, i + 7),
                  message |-> SubSeq(data, i + 8, Len(data))],
              !.m_reply.state = "START"]

\* update_error(it, end) with it at data[i]: code, '#', five bytes of SQLSTATE, message
update_error(s, data, i) ==
    [s EXCEPT !.m_reply.error =
        [code |-> U16(data, i),
         sql_state |-> SubSeq(data, i + 3, i + 7),
         message |-> SubSeq(data, i + 8, Len(data))]]

\* mutant: the test of SERVER_MORE_RESULTS_EXIST inverted
process_ok_packet_inverted(s, data) ==
    LET p1 == 2 + skip_encoded_int(data, 2)
        p2 == p1 + skip_encoded_int(data, p1)
        status == U16(data, p2)
        warnings == U16(data, p2 + 2)
        s1 == IF HasBit(status, SERVER_MORE_RESULTS_EXIST)
              THEN set_reply_state(s, "DONE") ELSE s
    IN [s1 EXCEPT !.m_reply.warnings = warnings]

\* "last_gtid", "trx_characteristics", "trx_state"
MXS_LAST_GTID == <<108, 97, 115, 116, 95, 103, 116, 105, 100>>
TrxCharacteristics ==
    <<116, 114, 120, 95, 99, 104, 97, 114, 97, 99, 116, 101, 114, 105, 115, 116, 105, 99, 115>>
TrxState == <<116, 114, 120, 95, 115, 116, 97, 116, 101>>

\* mutant: an entry of unknown type ends the extraction
RECURSIVE session_track_known(_, _, _)
session_track_known(r, data, i) ==
    IF i > Len(data) THEN r
    ELSE LET type == data[i]
             total_size == get_encoded_int(data, i + 1)
             it == i + 1 + skip_encoded_int(data, i + 1)
         IN CASE type = SESSION_TRACK_STATE_CHANGE ->
                    session_track_known(r, data, it + total_size)
              [] type = SESSION_TRACK_SCHEMA ->
                    session_track_known(r, data, it + skip_encoded_str(data, it))
              [] type = SESSION_TRACK_GTIDS ->
                    LET str == it + skip_encoded_int(data, it)
                    IN session_track_known(Reply_set_variable(r, MXS_LAST_GTID,
                                                        get_encoded_str(data, str)),
                                     data, str + skip_encoded_str(data, str))
              [] type = SESSION_TRACK_TRANSACTION_CHARACTERISTICS ->
                    session_track_known(Reply_set_variable(r, TrxCharacteristics,
                                                     get_encoded_str(data, it)),
                                  data, it + skip_encoded_str(data, it))
              [] type = SESSION_TRACK_SYSTEM_VARIABLES ->
                    LET value == it + skip_encoded_str(data, it)
                    IN session_track_known(Reply_set_variable(r, get_encoded_str(data, it),
                                                        get_encoded_str(data, value)),
                                     data, value + skip_encoded_str(data, value))
              [] type = SESSION_TRACK_TRANSACTION_TYPE ->
                    session_track_known(Reply_set_variable(r, TrxState, get_encoded_str(data, it)),
                                  data, it + skip_encoded_str(data, it))
              [] OTHER ->
                    r

\* the while loop of process_ok_packet with it at data[i] and end behind the
\* last byte of data; the server sends entries that end where the payload ends
RECURSIVE session_track(_, _, _)
session_track(r, data, i) ==
    IF i > Len(data) THEN r
    ELSE LET type == data[i]
             total_size == get_encoded_int(data, i + 1)
             it == i + 1 + skip_encoded_int(data, i + 1)
         IN CASE type = SESSION_TRACK_STATE_CHANGE ->
                    session_track(r, data, it + total_size)
              [] type = SESSION_TRACK_SCHEMA ->
                    session_track(r, data, it + skip_encoded_str(data, it))
              [] type = SESSION_TRACK_GTIDS ->
                    LET str == it + skip_encoded_int(data, it)
                    IN session_track(Reply_set_variable(r, MXS_LAST_GTID,
                                                        get_encoded_str(data, str)),
                                     data, str + skip_encoded_str(data, str))
              [] type = SESSION_TRACK_TRANSACTION_CHARACTERISTICS ->
                    session_track(Reply_set_variable(r, TrxCharacteristics,
                                                     get_encoded_str(data, it)),
                                  data, it + skip_encoded_str(data, it))
              [] type = SESSION_TRACK_SYSTEM_VARIABLES ->
                    LET value == it + skip_encoded_str(data, it)
                    IN session_track(Reply_set_variable(r, get_encoded_str(data, it),
                                                        get_encoded_str(data, value)),
                                     data, value + skip_encoded_str(data, value))
              [] type = SESSION_TRACK_TRANSACTION_TYPE ->
                    session_track(Reply_set_variable(r, TrxState, get_encoded_str(data, it)),
                                  data, it + skip_encoded_str(data, it))
              [] OTHER ->
                    session_track(r, data, it + total_size)

process_ok_packet(s, data) ==
    LET p1 == 2 + skip_encoded_int(data, 2)          \* after the affected rows
        p2 == p1 + skip_encoded_int(data, p1)        \* after the last insert id
        status == U16(data, p2)
        warnings == U16(data, p2 + 2)
        s1 == IF ~HasBit(status, SERVER_MORE_RESULTS_EXIST)
              THEN set_reply_state(s, "DONE") ELSE s
        s2 == [s1 EXCEPT !.m_reply.warnings = warnings]
        info == p2 + 4
        total == info + skip_encoded_str(data, info)
    IN IF /\ HasBit(status, SERVER_SESSION_STATE_CHANGED)
          /\ s.m_track_state
          /\ rcap_type_required(s.capabilities, "SESSION_STATE_TRACKING")
       THEN [s2 EXCEPT !.m_reply =
                session_track(@, data, total + skip_encoded_int(data, total))]
       ELSE s2

\* mutant: the EOF packets after the definitions are not counted
process_ps_response_defs(s, data) ==
    LET stmt_id == data[2] + 256 * data[3] + 65536 * data[4] + 16777216 * data[5]
        columns == U16(data, 6)
        params == U16(data, 8)
        ps_packets == columns + params
    IN [s EXCEPT !.m_reply.generated_id = stmt_id,
                 !.m_reply.param_count = params,
                 !.m_ps_packets = ps_packets,
                 !.m_reply.state = IF ps_packets = 0 THEN "DONE" ELSE "PREPARE"]

process_ps_response(s, data) ==
    LET stmt_id == data[2] + 256 * data[3] + 65536 * data[4] + 16777216 * data[5]
        columns == U16(data, 6)
        params == U16(data, 8)
        ps_packets == (IF columns # 0 THEN columns + 1 ELSE 0)
                      + (IF params # 0 THEN params + 1 ELSE 0)
    IN [s EXCEPT !.m_reply.generated_id = stmt_id,
                 !.m_reply.param_count = params,
                 !.m_ps_packets = ps_packets,
                 !.m_reply.state = IF ps_packets = 0 THEN "DONE" ELSE "PREPARE"]

process_result_start(s, data) ==
    LET cmd == data[1] IN
    CASE cmd = MYSQL_REPLY_OK ->
            LET s1 == [s EXCEPT !.m_reply.is_ok = TRUE] IN
            IF s.m_reply.command = MXS_COM_STMT_PREPARE
            THEN process_ps_response(s1, data)
            ELSE process_ok_packet(s1, data)
      [] cmd = MYSQL_REPLY_LOCAL_INFILE ->
            set_reply_state([s EXCEPT !.load_active = TRUE], "DONE")
      [] cmd = MYSQL_REPLY_ERR ->
            set_reply_state(update_error(s, data, 2), "DONE")
      [] cmd = MYSQL_REPLY_EOF ->
            s
      [] OTHER ->
            LET n == get_encoded_int(data, 1) IN
            [s EXCEPT !.m_num_coldefs = n,
                      !.m_reply.field_counts = Append(@, n),
                      !.m_reply.state = "RSET_COLDEF"]

process_reply_start(s, data) ==
    CASE s.m_reply.command = MXS_COM_BINLOG_DUMP -> s
      [] s.m_reply.command = MXS_COM_STATISTICS -> set_reply_state(s, "DONE")
      [] s.m_reply.command = MXS_COM_FIELD_LIST -> set_reply_state(s, "RSET_ROWS")
      [] OTHER -> process_result_start(s, data)

\* mutant: the rows are awaited after the column definitions of a cursor too
process_one_packet_rows(s, data, len) ==
    LET cmd == data[1] IN
    CASE s.m_reply.state = "START" ->
            process_reply_start(s, data)
      [] s.m_reply.state = "DONE" ->
            IF cmd = MYSQL_REPLY_ERR THEN update_error(s, data, 2) ELSE s
      [] s.m_reply.state = "RSET_COLDEF" ->
            LET s1 == [s EXCEPT !.m_num_coldefs = @ - 1] IN
            IF s1.m_num_coldefs = 0 THEN set_reply_state(s1, "RSET_COLDEF_EOF") ELSE s1
      [] s.m_reply.state = "RSET_COLDEF_EOF" ->
            set_reply_state(s, "RSET_ROWS")
      [] s.m_reply.state = "RSET_ROWS" ->
            IF cmd = MYSQL_REPLY_EOF /\ len = MYSQL_EOF_PACKET_LEN - MYSQL_HEADER_LEN
            THEN [s EXCEPT !.m_reply.state = IF is_last_eof(data) THEN "DONE" ELSE "START",
                           !.m_reply.warnings = U16(data, 2)]
            ELSE IF cmd = MYSQL_REPLY_ERR
            THEN set_reply_state(update_error(s, data, 2), "DONE")
            ELSE [s EXCEPT !.m_reply.rows = @ + 1]
      [] s.m_reply.state = "PREPARE" ->
            LET s1 == [s EXCEPT !.m_ps_packets = @ - 1] IN
            IF s1.m_ps_packets = 0 THEN set_reply_state(s1, "DONE") ELSE s1

process_one_packet(s, data, len) ==
    LET cmd == data[1] IN
    CASE s.m_reply.state = "START" ->
            process_reply_start(s, data)
      [] s.m_reply.state = "DONE" ->
            IF cmd = MYSQL_REPLY_ERR THEN update_error(s, data, 2) ELSE s
      [] s.m_reply.state = "RSET_COLDEF" ->
            LET s1 == [s EXCEPT !.m_num_coldefs = @ - 1] IN
            IF s1.m_num_coldefs = 0 THEN set_reply_state(s1, "RSET_COLDEF_EOF") ELSE s1
      [] s.m_reply.state = "RSET_COLDEF_EOF" ->
            IF s.m_opening_cursor
            THEN set_reply_state([s EXCEPT !.m_opening_cursor = FALSE], "DONE")
            ELSE set_reply_state(s, "RSET_ROWS")
      [] s.m_reply.state = "RSET_ROWS" ->
            IF cmd = MYSQL_REPLY_EOF /\ len = MYSQL_EOF_PACKET_LEN - MYSQL_HEADER_LEN
            THEN [s EXCEPT !.m_reply.state = IF is_last_eof(data) THEN "DONE" ELSE "START",
                           !.m_reply.warnings = U16(data, 2)]
            ELSE IF cmd = MYSQL_REPLY_ERR
            THEN set_reply_state(update_error(s, data, 2), "DONE")
            ELSE [s EXCEPT !.m_reply.rows = @ + 1]
      [] s.m_reply.state = "PREPARE" ->
            LET s1 == [s EXCEPT !.m_ps_packets = @ - 1] IN
            IF s1.m_ps_packets = 0 THEN set_reply_state(s1, "DONE") ELSE s1

\* mutant: the tail of a maximum-length packet is classified unless it is empty
process_packet_noskip(s, pkt) ==
    LET s1 == [s EXCEPT !.m_skip_next = (pkt.len = GW_MYSQL_MAX_PACKET_LEN)]
    IN IF pkt.len > 0 THEN process_one_packet(s1, pkt.data, pkt.len) ELSE s1

\* one iteration of the loop of process_packets over a whole packet
process_packet(s, pkt) ==
    LET skip_next == s.m_skip_next
        s1 == [s EXCEPT !.m_skip_next = (pkt.len = GW_MYSQL_MAX_PACKET_LEN)]
    IN IF ~skip_next THEN process_one_packet(s1, pkt.data, pkt.len) ELSE s1

\* mutant: any packet of the client ends the load
track_query_any(s, buf) ==
    LET s1 ==
          IF s.load_active
          THEN [s EXCEPT !.load_active = FALSE, !.m_reply.state = "START"]
          ELSE IF ~s.m_large_query
          THEN LET cmd == buf.data[1]
                   a == [s EXCEPT !.m_reply = [Reply_clear EXCEPT !.command = cmd]]
                   b == IF mxs_mysql_command_will_respond(cmd)
                        THEN [a EXCEPT !.m_reply.state = "START"] ELSE a
               IN IF cmd = MXS_COM_STMT_EXECUTE
                  THEN [b EXCEPT !.m_opening_cursor = (buf.data[6] # 0)]
                  ELSE IF cmd = MXS_COM_STMT_FETCH
                  THEN [b EXCEPT !.m_reply.state = "RSET_ROWS"]
                  ELSE b
          ELSE s
    IN IF s.m_changing_user THEN s
       ELSE [s1 EXCEPT !.m_large_query = (buf.len = GW_MYSQL_MAX_PACKET_LEN)]

\* track_query(buffer): buffer is a client packet [len, data]
track_query(s, buf) ==
    LET s1 ==
          IF s.m_changing_user THEN s
          ELSE IF s.load_active
          THEN IF buf.len = 0
               THEN set_reply_state([s EXCEPT !.load_active = FALSE], "START")
               ELSE s
          ELSE IF ~s.m_large_query
          THEN LET cmd == buf.data[1]
                   a == [s EXCEPT !.m_reply = [Reply_clear EXCEPT !.command = cmd]]
                   b == IF mxs_mysql_command_will_respond(cmd)
                        THEN set_reply_state(a, "START") ELSE a
               IN IF cmd = MXS_COM_STMT_EXECUTE
                  THEN [b EXCEPT !.m_opening_cursor = (buf.data[6] # 0)]
                  ELSE IF cmd = MXS_COM_STMT_FETCH
                  THEN set_reply_state(b, "RSET_ROWS")
                  ELSE b
          ELSE s
    IN IF s.m_changing_user THEN s
       ELSE [s1 EXCEPT !.m_large_query = (buf.len = GW_MYSQL_MAX_PACKET_LEN)]

(* ---------------------------------------------------------------------- *)
(* Byte buffers (GWBUF contents)                                           *)
(*                                                                         *)
(* A buffer is a sequence of runs [b, n]: the byte b repeated n times, in  *)
(* canonical form (no two neighbouring runs hold the same byte), so that a *)
(* payload of 0xFFFFFF bytes is one run.                                   *)
(* ---------------------------------------------------------------------- *)
Run(b, n) == IF n = 0 THEN <<>> ELSE <<[b |-> b, n |-> n]>>

Cat(x, y) ==
    IF x = <<>> THEN y
    ELSE IF y = <<>> THEN x
    ELSE IF x[Len(x)].b = y[1].b
    THEN SubSeq(x, 1, Len(x) - 1) \o <<[b |-> y[1].b, n |-> x[Len(x)].n + y[1].n]>> \o Tail(y)
    ELSE x \o y

RECURSIVE Bytes(_)
Bytes(seq) == IF seq = <<>> THEN <<>> ELSE Cat(Run(seq[1], 1), Bytes(Tail(seq)))

RECURSIVE BufLen(_)
BufLen(buf) == IF buf = <<>> THEN 0 ELSE buf[1].n + BufLen(Tail(buf))

RECURSIVE BufAt(_, _)
BufAt(buf, i) == IF i <= buf[1].n THEN buf[1].b ELSE BufAt(Tail(buf), i - buf[1].n)

RECURSIVE BufTake(_, _)
BufTake(buf, k) ==
    IF k = 0 \/ buf = <<>> THEN <<>>
    ELSE IF k >= buf[1].n THEN Cat(<<buf[1]>>, BufTake(Tail(buf), k - buf[1].n))
    ELSE Run(buf[1].b, k)

RECURSIVE BufDrop(_, _)
BufDrop(buf, k) ==
    IF k = 0 \/ buf = <<>> THEN buf
    ELSE IF k >= buf[1].n THEN BufDrop(Tail(buf), k - buf[1].n)
    ELSE Cat(Run(buf[1].b, buf[1].n - k), Tail(buf))

\* cnt bytes of buf from byte position from (1-based), as a sequence
BufSeq(buf, from, cnt) == [i \in 1..cnt |-> BufAt(buf, from + i - 1)]

\* the bytes of a packet on the wire: 3 bytes of length, the sequence byte, the
\* payload; the bytes of a long payload that the model does not name are 'A'
Encode(pkt) ==
    Cat(Bytes(<<pkt.len % 256, (pkt.len \div 256) % 256, pkt.len \div 65536, pkt.seq>>),
        Cat(Bytes(pkt.data), Run(65, pkt.len - Len(pkt.data))))

(* ---------------------------------------------------------------------- *)
(* process_packets                                                         *)
(* ---------------------------------------------------------------------- *)
\* payload bytes handed to process_one_packet; of a longer payload the code
\* reads the leading bytes only
MaxData == 48
Min(a, b) == IF a < b THEN a ELSE b

\* mutant: the loop stops after the first packet of the buffer
process_packets_loop_once(s, buf, bytes_used) ==
    LET total_bytes == BufLen(buf)
        len == IF total_bytes < MYSQL_HEADER_LEN THEN 0
               ELSE BufAt(buf, 1) + 256 * BufAt(buf, 2) + 65536 * BufAt(buf, 3)
    IN IF total_bytes < MYSQL_HEADER_LEN \/ total_bytes < len + MYSQL_HEADER_LEN
       THEN [s |-> s, bytes_used |-> bytes_used]
       ELSE [s |-> process_packet(s, [len |-> len,
                                      data |-> [i \in 1..Min(len, MaxData) |->
                                                   BufAt(buf, MYSQL_HEADER_LEN + i)]]),
             bytes_used |-> len + MYSQL_HEADER_LEN]

RECURSIVE process_packets_loop(_, _, _)
process_packets_loop(s, buf, bytes_used) ==
    LET total_bytes == BufLen(buf)
        bytes_left == total_bytes - bytes_used
    IN IF bytes_used = total_bytes THEN [s |-> s, bytes_used |-> bytes_used]
       ELSE IF bytes_left < MYSQL_HEADER_LEN THEN [s |-> s, bytes_used |-> bytes_used]
       ELSE LET len == BufAt(buf, bytes_used + 1) + 256 * BufAt(buf, bytes_used + 2)
                       + 65536 * BufAt(buf, bytes_used + 3)
            IN IF bytes_left < len + MYSQL_HEADER_LEN
               THEN [s |-> s, bytes_used |-> bytes_used]
               ELSE LET pkt == [len |-> len,
                                data |-> BufSeq(buf, bytes_used + MYSQL_HEADER_LEN + 1,
                                                Min(len, MaxData))]
                    IN process_packets_loop(process_packet(s, pkt), buf,
                                            bytes_used + len + MYSQL_HEADER_LEN)

\* process_packets(&buffer): the new state, the complete packets split off the
\* front of the buffer, and what is left in the buffer
process_packets(s, buf) ==
    LET r == process_packets_loop(s, buf, 0)
    IN [s |-> r.s, packets |-> BufTake(buf, r.bytes_used), rest |-> BufDrop(buf, r.bytes_used)]

(* ---------------------------------------------------------------------- *)
(* Inputs: client buffers and backend packets                              *)
(* ---------------------------------------------------------------------- *)
\* a client packet with command byte cmd followed by the bytes rest
ClientPacket(cmd, rest) == [len |-> 1 + Len(rest), data |-> <<cmd>> \o rest]

\* COM_STMT_EXECUTE: command, four bytes of statement id, the flag byte, iteration count
StmtExecute(flags) == ClientPacket(MXS_COM_STMT_EXECUTE, <<7, 0, 0, 0, flags, 1, 0, 0, 0>>)
StmtFetch == ClientPacket(MXS_COM_STMT_FETCH, <<7, 0, 0, 0, 1, 0, 0, 0>>)
\* a packet of the maximum length: the first part of a query longer than 0xFFFFFF bytes
LargeQuery == [len |-> GW_MYSQL_MAX_PACKET_LEN, data |-> <<MXS_COM_QUERY, 83>>]
\* the empty packet: ends the file of a LOAD DATA LOCAL INFILE or a large query
EmptyPacket == [len |-> 0, data |-> <<>>]

ClientBuffers ==
    {ClientPacket(c, <<83>>) :
        c \in {MXS_COM_QUERY, MXS_COM_FIELD_LIST, MXS_COM_STATISTICS, MXS_COM_BINLOG_DUMP,
               MXS_COM_STMT_PREPARE, MXS_COM_STMT_CLOSE}}
    \cup {StmtExecute(0), StmtExecute(1), StmtFetch, LargeQuery, EmptyPacket}

\* OK: 0x00, affected rows, last insert id, status, warnings
OkPacket(status, warnings) ==
    [len |-> 7, seq |-> 1,
     data |-> <<MYSQL_REPLY_OK, 0, 0, status % 256, status \div 256,
                warnings % 256, warnings \div 256>>]
\* COM_STMT_PREPARE OK: 0x00, statement id, columns, parameters, filler, warnings
PsOkPacket(id, columns, params) ==
    [len |-> 12, seq |-> 1,
     data |-> <<MYSQL_REPLY_OK, id, 0, 0, 0, columns, 0, params, 0, 0, 0, 0>>]
\* ERR: 0xFF, code, '#', SQLSTATE "70100", message "no"
ErrPacket(code) ==
    [len |-> 11, seq |-> 1,
     data |-> <<MYSQL_REPLY_ERR, code % 256, code \div 256, 35, 55, 48, 49, 48, 48, 110, 111>>]
\* EOF: 0xFE, warnings, status
EofPacket(warnings, status) ==
    [len |-> 5, seq |-> 1,
     data |-> <<MYSQL_REPLY_EOF, warnings % 256, warnings \div 256,
                status % 256, status \div 256>>]
LocalInfilePacket == [len |-> 2, seq |-> 1, data |-> <<MYSQL_REPLY_LOCAL_INFILE, 102>>]
\* the first packet of a result set: the number of columns
FieldCountPacket(n) == [len |-> 1, seq |-> 1, data |-> <<n>>]
\* a column definition or a text row: a length-encoded string
DataPacket == [len |-> 2, seq |-> 1, data |-> <<1, 49>>]
\* a row whose first column is longer than 0xFFFFFF bytes starts with 0xFE
LongRowPacket == [len |-> 12, seq |-> 1, data |-> <<254, 1, 0, 0, 1, 0, 0, 0, 0, 49, 49, 49>>]
\* a packet of seven bytes that starts with 0xFE: longer than the EOF packet,
\* shorter than a row whose first column is longer than 0xFFFFFF bytes
LongEofPacket == [len |-> 7, seq |-> 1, data |-> <<254, 0, 0, 0, 0, 0, 0>>]
\* a packet of the maximum length: the first part of a longer row
LargePacket == [len |-> GW_MYSQL_MAX_PACKET_LEN, seq |-> 1, data |-> <<1, 49>>]
\* the empty packet that ends a row of a multiple of 0xFFFFFF bytes
EmptyTail == [len |-> 0, seq |-> 2, data |-> <<>>]

BackendPackets ==
    {OkPacket(0, 0), OkPacket(SERVER_MORE_RESULTS_EXIST, 0), OkPacket(0, 1),
     PsOkPacket(7, 2, 1), PsOkPacket(7, 0, 0), ErrPacket(1317),
     EofPacket(0, 0), EofPacket(0, SERVER_MORE_RESULTS_EXIST), EofPacket(1, 0),
     LocalInfilePacket, FieldCountPacket(1), FieldCountPacket(2), DataPacket,
     LongRowPacket, LongEofPacket, LargePacket, EmptyTail}

(* ---------------------------------------------------------------------- *)
(* The reply state machine driven packet by packet                         *)
(* ---------------------------------------------------------------------- *)
\* The code reads the payload without checking its length. The peers send
\* only what it can read: an empty packet only as the tail of a large one,
\* and an OK in answer to COM_STMT_PREPARE in the 12-byte form.
ClientSends(buf) == buf.len = 0 => (load_active \/ m_large_query)

ServerSends(pkt) ==
    /\ pkt.len = 0 => m_skip_next
    /\ (/\ ~m_skip_next
        /\ m_reply.state = "START"
        /\ m_reply.command = MXS_COM_STMT_PREPARE
        /\ pkt.len > 0
        /\ pkt.data[1] = MYSQL_REPLY_OK) => pkt.len >= 12

\* the server between two replies
ServerIdle == [phase |-> "idle", cmd |-> 0, cursor |-> FALSE, n |-> 0, c |-> 0,
               results |-> 0, rows |-> 0]
NoRequest == [cmd |-> 0, expect |-> FALSE, chain |-> FALSE, oks |-> 0, done |-> 0,
              start |-> 0, inrows |-> 0]

\* the last operation, the reply state and skip flag it found, and whether the
\* packet before it was the tail that ended a run of maximum-length packets
NoHistory == [op |-> "none", pre_state |-> "DONE", pre_skip |-> FALSE, after_tail |-> FALSE]

\* the members after construction
\* twenty bytes b
Bytes20(b) == [i \in 1..GW_MYSQL_SCRAMBLE_SIZE |-> b]

\* what a client announces: CLIENT_MYSQL, CONNECT_WITH_DB, PROTOCOL_41,
\* TRANSACTIONS, SECURE_CONNECTION, PLUGIN_AUTH, CONNECT_ATTRS and COMPRESS,
\* which is not among the capabilities passed on to a backend
ClientCapabilities == 1 + 8 + 32 + 512 + 8192 + 32768 + 524288 + 1048576

\* the MYSQL_session of a client: its user name, the SHA1 of its password
\* (empty if it has none), its default database, character set and
\* connection attributes
ClientData(user, passwd) ==
    [user |-> <<user>>,
     auth_token_phase2 |-> IF passwd = 0 THEN <<>> ELSE Bytes20(passwd),
     db |-> <<>>, charset |-> 33, connect_attrs |-> <<>>, changing_user |-> FALSE,
     client_capabilities |-> ClientCapabilities, extra_capabilities |-> 0]

InitSelf ==
    [m_reply |-> Reply_clear, m_num_coldefs |-> 0, m_ps_packets |-> 0,
     m_opening_cursor |-> FALSE, m_skip_next |-> FALSE, m_large_query |-> FALSE,
     m_changing_user |-> FALSE, m_collect_result |-> FALSE, m_track_state |-> FALSE,
     load_active |-> FALSE, m_auth_state |-> "CONNECTED", m_ignore_replies |-> 0,
     m_stored_query |-> <<>>, m_scramble |-> Bytes20(0), server_capabilities |-> 0,
     m_client_data |-> ClientData(117, 1), m_upstream |-> <<>>, m_collectq |-> <<>>,
     writeq |-> <<>>, delayq |-> <<>>,
     capabilities |-> {"REQUEST_TRACKING", "PACKET_OUTPUT"}]

\* the connection is in state s
Holds(s) ==
    /\ m_reply = s.m_reply
    /\ m_num_coldefs = s.m_num_coldefs
    /\ m_ps_packets = s.m_ps_packets
    /\ m_opening_cursor = s.m_opening_cursor
    /\ m_skip_next = s.m_skip_next
    /\ m_large_query = s.m_large_query
    /\ m_changing_user = s.m_changing_user
    /\ m_collect_result = s.m_collect_result
    /\ m_track_state = s.m_track_state
    /\ load_active = s.load_active
    /\ m_auth_state = s.m_auth_state
    /\ m_ignore_replies = s.m_ignore_replies
    /\ m_stored_query = s.m_stored_query
    /\ m_scramble = s.m_scramble
    /\ server_capabilities = s.server_capabilities
    /\ m_client_data = s.m_client_data
    /\ m_upstream = s.m_upstream
    /\ m_collectq = s.m_collectq
    /\ writeq = s.writeq
    /\ delayq = s.delayq

\* nothing sent, nothing received
InitHistory ==
    /\ h_last = NoHistory
    /\ srv = ServerIdle
    /\ h_req = NoRequest

InitNet ==
    /\ readq = <<>>
    /\ stream = <<>>
    /\ h_stream = <<>>
    /\ h_cmd = EmptyPacket
    /\ h_emitted = <<>>

\* the connection after authentication
Authenticated == [InitSelf EXCEPT !.m_auth_state = "COMPLETE"]

\* address families of the sockets API
AF_UNIX == 1
AF_INET == 2
AF_INET6 == 10

\* a socket address: the family, the address (four bytes for AF_INET, eight
\* 16-bit words for AF_INET6, none otherwise) and the port in host order
SockAddr(family, addr, port) == [ss_family |-> family, addr |-> addr, port |-> port]

\* the DCB of the client: the family of its address, and what getpeername
\* and getsockname give for its descriptor
ClientDcb(peer, local) ==
    [family |-> peer.ss_family, getpeername |-> 0, sa_peer |-> peer,
     getsockname |-> 0, sa_local |-> local]

LocalClient ==
    ClientDcb(SockAddr(AF_INET, <<127, 0, 0, 1>>, 40000), SockAddr(AF_INET, <<127, 0, 0, 1>>, 3306))

\* a DCB to a server without TLS and without a connection pool
PlainDcb ==
    [state |-> "POLLING", capabilities |-> {"REQUEST_TRACKING", "PACKET_OUTPUT"},
     ssl_context |-> FALSE, persistent_conns_enabled |-> FALSE,
     ssl_state |-> "HANDSHAKE_UNKNOWN", session_state |-> "STARTED",
     main_worker |-> 0, handle_error |-> FALSE, hangup_event |-> FALSE,
     triggered_read_event |-> FALSE,
     proxy_protocol |-> FALSE, client_dcb |-> LocalClient]
NoEvent == [op |-> "none"]

InitDcb ==
    /\ dcb = PlainDcb
    /\ h_event = NoEvent
    /\ h_accepted = <<>>

\* an authenticated connection
InitReply ==
    /\ Holds(Authenticated)
    /\ InitHistory
    /\ InitNet
    /\ InitDcb

InBounds(s) ==
    /\ s.m_reply.rows <= MaxRows
    /\ Len(s.m_reply.field_counts) <= MaxFieldCounts

\* track_query on a client buffer that is about to be written
TrackQuery(buf) ==
    /\ ClientSends(buf)
    /\ Commit(track_query(Self, buf))
    /\ h_last' = [op |-> "track_query", pre_state |-> m_reply.state,
                  pre_skip |-> m_skip_next, after_tail |-> FALSE]
    /\ UNCHANGED <<srv, h_req, netvars, dcbvars>>

\* process_packets on a buffer that holds one whole packet: the loop runs once
ProcessPackets(pkt) ==
    /\ ServerSends(pkt)
    /\ LET s == process_packet(Self, pkt)
       IN /\ InBounds(s)
          /\ Commit(s)
    /\ h_last' = [op |-> "process_packets", pre_state |-> m_reply.state,
                  pre_skip |-> m_skip_next,
                  after_tail |-> (/\ h_last.op = "process_packets"
                                  /\ h_last.pre_skip
                                  /\ ~m_skip_next)]
    /\ UNCHANGED <<srv, h_req, netvars, dcbvars>>

NextReply ==
    \/ \E buf \in ClientBuffers : TrackQuery(buf)
    \/ \E pkt \in BackendPackets : ProcessPackets(pkt)

SpecReply == InitReply /\ [][NextReply]_vars

(* ---------------------------------------------------------------------- *)
(* Properties of the reply state machine (SpecReply)                       *)
(* ---------------------------------------------------------------------- *)
\* a packet the state machine classifies: not the tail of a maximum-length packet
Classified(pkt) == ServerSends(pkt) /\ ~m_skip_next /\ pkt.len > 0

\* C1: whenever the Reply has an error recorded, the reply state is Done.
C1_ErrorImpliesDone == Error_present(m_reply.error) => m_reply.state = "DONE"

\* C3: for every command last submitted, an ERR packet received in Start is
\* decoded into the Reply (code, SQLSTATE, message) and the state becomes Done.
C3_ErrInStart ==
    [][\A pkt \in BackendPackets :
          (/\ m_reply.state = "START"
           /\ Classified(pkt)
           /\ pkt.data[1] = MYSQL_REPLY_ERR
           /\ ProcessPackets(pkt))
          => /\ m_reply'.state = "DONE"
             /\ m_reply'.error = [code |-> pkt.data[2] + 256 * pkt.data[3],
                                  sql_state |-> SubSeq(pkt.data, 5, 9),
                                  message |-> SubSeq(pkt.data, 10, pkt.len)]]_vars

\* the OK packets without SERVER_MORE_RESULTS_EXIST
LastOkPackets ==
    {pkt \in BackendPackets :
        /\ pkt.len = 7
        /\ pkt.data[1] = MYSQL_REPLY_OK
        /\ ~HasBit(U16(pkt.data, 4), SERVER_MORE_RESULTS_EXIST)}

C6_SkipNext ==
    \A pkt \in BackendPackets :
        ServerSends(pkt) =>
            LET s == process_packet(Self, pkt) IN
            /\ s.m_skip_next = (pkt.len = GW_MYSQL_MAX_PACKET_LEN)
            /\ m_skip_next =>
                  /\ s.m_reply = m_reply
                  /\ s.m_num_coldefs = m_num_coldefs
                  /\ s.m_ps_packets = m_ps_packets
                  /\ s.load_active = load_active
            /\ (~m_skip_next /\ m_reply.state = "RSET_ROWS") =>
                  /\ pkt.data[1] \notin {MYSQL_REPLY_EOF, MYSQL_REPLY_ERR}
                        => s.m_reply.rows = m_reply.rows + 1
                  /\ pkt = EofPacket(0, 0) => s.m_reply.state = "DONE"

\* after a maximum-length row and its tail, the EOF that ends the rows was
\* classified: the reply is Done with the one row counted
C6_Witness ==
    /\ h_last.op = "process_packets"
    /\ h_last.after_tail
    /\ ~h_last.pre_skip
    /\ h_last.pre_state = "RSET_ROWS"
    /\ m_reply.state = "DONE"
    /\ m_reply.rows = 1

(* ---------------------------------------------------------------------- *)
(* Well-formed response streams (SpecWF)                                   *)
(* ---------------------------------------------------------------------- *)
\* The server answers every command with a reply the protocol allows. srv is
\* the server's place in that reply; ServerSteps is what it may send next:
\* the packet, its kind, and the server's place afterwards.
MaxResults == 3
MaxWfRows == 2

\* a binary-protocol row: 0x00, null bitmap, value
BinaryRowPacket == [len |-> 3, seq |-> 1, data |-> <<0, 0, 49>>]

ServerAt(sv, phase) == [sv EXCEPT !.phase = phase]
Emit(kind, pkt, next) == [kind |-> kind, pkt |-> pkt, next |-> next]
\* the server starts the next result of the same reply
NextResult(sv) == [sv EXCEPT !.phase = "first", !.results = @ + 1]

FirstSteps(sv) ==
    IF sv.cmd \in {MXS_COM_QUERY, MXS_COM_STMT_EXECUTE}
    THEN {Emit("ok", OkPacket(0, 0), ServerIdle), Emit("err", ErrPacket(1317), ServerIdle)}
         \cup {Emit("fieldcount", FieldCountPacket(n), [sv EXCEPT !.phase = "coldefs", !.n = n]) :
                  n \in 1..2}
         \cup (IF sv.results < MaxResults
               THEN {Emit("ok", OkPacket(SERVER_MORE_RESULTS_EXIST, 0), NextResult(sv))}
               ELSE {})
         \cup (IF sv.cmd = MXS_COM_QUERY
               THEN {Emit("infile", LocalInfilePacket, ServerAt(sv, "load"))}
               ELSE {})
    ELSE IF sv.cmd = MXS_COM_FIELD_LIST
    THEN {Emit("err", ErrPacket(1317), ServerIdle),
          Emit("coldef", DataPacket, [sv EXCEPT !.phase = "fields", !.rows = 1])}
    ELSE IF sv.cmd = MXS_COM_STATISTICS
    THEN {Emit("text", DataPacket, ServerIdle)}
    ELSE IF sv.cmd = MXS_COM_STMT_PREPARE
    THEN {Emit("err", ErrPacket(1317), ServerIdle)}
         \cup {Emit("ok", PsOkPacket(7, c, p),
                    IF p > 0 THEN [sv EXCEPT !.phase = "ps_params", !.n = p, !.c = c]
                    ELSE IF c > 0 THEN [sv EXCEPT !.phase = "ps_cols", !.n = c, !.c = 0]
                    ELSE ServerIdle) : c \in {0, 2}, p \in {0, 1}}
    ELSE {}

RowSteps(sv) ==
    {Emit("eof", EofPacket(w, 0), ServerIdle) : w \in {0, 1}}
    \cup {Emit("err", ErrPacket(1317), ServerIdle)}
    \cup (IF sv.results < MaxResults /\ sv.cmd # MXS_COM_STMT_FETCH
          THEN {Emit("eof", EofPacket(0, SERVER_MORE_RESULTS_EXIST), NextResult(sv))}
          ELSE {})
    \cup (IF sv.rows < MaxWfRows
          THEN {Emit("row", pkt, [sv EXCEPT !.rows = @ + 1]) :
                   pkt \in {DataPacket, BinaryRowPacket, LongRowPacket}}
               \cup {Emit("row", LargePacket, [sv EXCEPT !.phase = "tail", !.rows = @ + 1])}
          ELSE {})

ServerSteps(sv) ==
    CASE sv.phase = "first" -> FirstSteps(sv)
      [] sv.phase = "coldefs" ->
            {Emit("coldef", DataPacket,
                  IF sv.n > 1 THEN [sv EXCEPT !.n = @ - 1] ELSE ServerAt(sv, "coldef_eof"))}
      [] sv.phase = "coldef_eof" ->
            {Emit("coldef_eof", EofPacket(0, 0),
                  IF sv.cursor THEN ServerIdle ELSE ServerAt(sv, "rows"))}
      [] sv.phase = "rows" -> RowSteps(sv)
      [] sv.phase = "tail" ->
            {Emit("tail", pkt, ServerAt(sv, "rows")) : pkt \in {EmptyTail, EofPacket(0, 0)}}
            \cup {Emit("tail", LargePacket, sv)}
      [] sv.phase = "fields" ->
            {Emit("eof", EofPacket(0, 0), ServerIdle)}
            \cup (IF sv.rows < MaxWfRows
                  THEN {Emit("coldef", DataPacket, [sv EXCEPT !.rows = @ + 1])}
                  ELSE {})
      [] sv.phase = "ps_params" ->
            {Emit("coldef", DataPacket,
                  IF sv.n > 1 THEN [sv EXCEPT !.n = @ - 1] ELSE ServerAt(sv, "ps_params_eof"))}
      [] sv.phase = "ps_params_eof" ->
            {Emit("ps_eof", EofPacket(0, 0),
                  IF sv.c > 0 THEN [sv EXCEPT !.phase = "ps_cols", !.n = sv.c, !.c = 0]
                  ELSE ServerIdle)}
      [] sv.phase = "ps_cols" ->
            {Emit("coldef", DataPacket,
                  IF sv.n > 1 THEN [sv EXCEPT !.n = @ - 1] ELSE ServerAt(sv, "ps_cols_eof"))}
      [] sv.phase = "ps_cols_eof" -> {Emit("ps_eof", EofPacket(0, 0), ServerIdle)}
      [] OTHER -> {}

\* the commands a client submits when the previous reply is over
WfCommands ==
    {ClientPacket(c, <<83>>) :
        c \in {MXS_COM_QUERY, MXS_COM_FIELD_LIST, MXS_COM_STATISTICS, MXS_COM_STMT_PREPARE,
               MXS_COM_STMT_CLOSE}}
    \cup {StmtExecute(0), StmtExecute(1), StmtFetch, LargeQuery}

Bit(b) == IF b THEN 1 ELSE 0

\* the client submits a command: track_query, and the server starts its reply
Submit(buf) ==
    /\ srv.phase = "idle"
    /\ Commit(track_query(Self, buf))
    /\ LET cmd == buf.data[1]
           sv == [ServerIdle EXCEPT !.cmd = cmd, !.results = 1,
                                    !.cursor = (cmd = MXS_COM_STMT_EXECUTE /\ buf.data[6] # 0)]
       IN /\ srv' = IF buf.len = GW_MYSQL_MAX_PACKET_LEN THEN ServerAt(sv, "query_tail")
                    ELSE IF ~mxs_mysql_command_will_respond(cmd) THEN ServerIdle
                    ELSE IF cmd = MXS_COM_STMT_FETCH THEN ServerAt(sv, "rows")
                    ELSE ServerAt(sv, "first")
          /\ h_req' = [NoRequest EXCEPT !.cmd = cmd, !.chain = TRUE,
                                        !.expect = mxs_mysql_command_will_respond(cmd)]
    /\ h_last' = [op |-> "track_query", pre_state |-> m_reply.state,
                  pre_skip |-> m_skip_next, after_tail |-> FALSE]
    /\ UNCHANGED <<netvars, dcbvars>>

\* the client sends the rest of a query longer than one packet
SubmitTail(buf) ==
    /\ srv.phase = "query_tail"
    /\ ClientSends(buf)
    /\ Commit(track_query(Self, buf))
    /\ srv' = ServerAt(srv, IF buf.len = GW_MYSQL_MAX_PACKET_LEN THEN "query_tail" ELSE "first")
    /\ h_last' = [op |-> "track_query", pre_state |-> m_reply.state,
                  pre_skip |-> m_skip_next, after_tail |-> FALSE]
    /\ UNCHANGED <<h_req, netvars, dcbvars>>

\* the client sends the file the server asked for, and the empty packet after
\* it: the server then sends the reply to the LOAD DATA LOCAL INFILE
SendFile(buf) ==
    /\ srv.phase = "load"
    /\ ClientSends(buf)
    /\ Commit(track_query(Self, buf))
    /\ srv' = IF buf.len = 0 THEN ServerAt(srv, "first") ELSE srv
    /\ h_req' = IF buf.len = 0
                THEN [h_req EXCEPT !.chain = FALSE, !.done = 0, !.start = 0]
                ELSE h_req
    /\ h_last' = [op |-> "track_query", pre_state |-> m_reply.state,
                  pre_skip |-> m_skip_next, after_tail |-> FALSE]
    /\ UNCHANGED <<netvars, dcbvars>>

\* a terminating EOF (0xFE, length 5) or an ERR
IsEofOrErr(pkt) ==
    \/ pkt.data[1] = MYSQL_REPLY_ERR
    \/ pkt.data[1] = MYSQL_REPLY_EOF /\ pkt.len = 5

\* the server sends the next packet of its reply: process_packets on that packet
Deliver(e) ==
    /\ ServerSends(e.pkt)
    /\ LET s == process_packet(Self, e.pkt)
       IN /\ Commit(s)
          /\ h_req' = [h_req EXCEPT
                !.chain = @ /\ e.kind = "ok",
                !.oks = @ + Bit(e.kind = "ok"),
                !.done = @ + Bit(m_reply.state # "DONE" /\ s.m_reply.state = "DONE"),
                !.start = @ + Bit(m_reply.state = "START" /\ ~m_skip_next),
                !.inrows = @ + Bit(/\ m_reply.state = "RSET_ROWS"
                                   /\ ~m_skip_next
                                   /\ ~IsEofOrErr(e.pkt))]
    /\ srv' = e.next
    /\ h_last' = [op |-> "process_packets", pre_state |-> m_reply.state,
                  pre_skip |-> m_skip_next,
                  after_tail |-> (/\ h_last.op = "process_packets"
                                  /\ h_last.pre_skip
                                  /\ ~m_skip_next)]
    /\ UNCHANGED <<netvars, dcbvars>>

NextWF ==
    \/ \E buf \in WfCommands : Submit(buf)
    \/ \E buf \in {ClientPacket(83, <<83>>), LargeQuery, EmptyPacket} : SubmitTail(buf)
    \/ \E buf \in {ClientPacket(102, <<102>>), EmptyPacket} : SendFile(buf)
    \/ \E e \in ServerSteps(srv) : Deliver(e)

SpecWF == InitReply /\ [][NextWF]_vars

(* ---------------------------------------------------------------------- *)
(* Properties of well-formed replies (SpecWF)                              *)
(* ---------------------------------------------------------------------- *)
\* the server has sent the whole of a reply
ReplySent == h_req.expect /\ srv.phase \in {"idle", "load"}

\* C2: for a well-formed response stream to a submitted command, Done is
\* entered exactly once per logical reply: never twice, and once when the
\* server has sent the whole reply, the state then being Done; and the row
\* count is then the number of packets classified in RSetRows that were
\* neither the terminating EOF nor an ERR.
C2_DoneOncePerReply ==
    /\ h_req.done <= 1
    /\ ReplySent => /\ m_reply.state = "DONE"
                    /\ h_req.done = 1
                    /\ m_reply.rows = h_req.inrows

\* the reply so far is a chain of OK packets to a COM_QUERY or COM_STMT_EXECUTE
InOkChain == h_req.expect /\ h_req.chain /\ h_req.cmd \in {MXS_COM_QUERY, MXS_COM_STMT_EXECUTE}

\* C5: in a reply of k OK packets, the first k-1 with MORE_RESULTS_EXIST, the
\* state is Start when each OK is received and Done is not entered before the
\* last one; after the k-th OK the state is Done, entered once, and Start has
\* classified exactly k packets.
C5_OkChain ==
    InOkChain =>
        /\ h_req.start = h_req.oks
        /\ IF srv.phase = "idle"
           THEN m_reply.state = "DONE" /\ h_req.done = 1
           ELSE m_reply.state = "START" /\ h_req.done = 0

\* a chain of three OK packets has been received
C5_Witness ==
    /\ InOkChain
    /\ srv.phase = "idle"
    /\ h_req.oks = MaxResults
    /\ h_req.start = MaxResults
    /\ m_reply.state = "DONE"

(* ---------------------------------------------------------------------- *)
(* The framer fed in chunks (SpecFramer)                                   *)
(* ---------------------------------------------------------------------- *)
\* The backend answers one command with a stream of bytes: up to
\* MaxStreamPkts packets, the last one cut short by up to MaxTrunc bytes. The
\* bytes arrive in chunks; each read hands the read queue and the new chunk
\* to process_packets and keeps what it leaves as the new read queue.
MaxStreamPkts == 3
MaxTrunc == 2
MaxCut == 5

FramerPackets == {DataPacket, EofPacket(0, 0), LargePacket, EmptyTail}

RECURSIVE PacketSeqs(_)
PacketSeqs(n) ==
    IF n = 0 THEN {<<>>}
    ELSE LET shorter == PacketSeqs(n - 1)
         IN shorter \cup {Append(q, pkt) : q \in {x \in shorter : Len(x) = n - 1},
                                           pkt \in FramerPackets}

\* the server sends an empty packet only after a packet of the maximum length
ServerStream(q) ==
    /\ q # <<>>
    /\ \A i \in 1..Len(q) : q[i].len = 0 => (i > 1 /\ q[i - 1].len = GW_MYSQL_MAX_PACKET_LEN)

RECURSIVE EncodeAll(_)
EncodeAll(q) == IF q = <<>> THEN <<>> ELSE Cat(Encode(q[1]), EncodeAll(Tail(q)))

Streams ==
    {BufTake(EncodeAll(q), BufLen(EncodeAll(q)) - cut) :
        q \in {x \in PacketSeqs(MaxStreamPkts) : ServerStream(x)}, cut \in {0, MaxTrunc}}

\* the sizes of the next chunk: a few bytes, or up to the end of a long run
\* of equal bytes, or one byte less, or all that is left
Cuts(st) ==
    IF st = <<>> THEN {}
    ELSE (IF st[1].n <= MaxCut THEN 1..Min(MaxCut, BufLen(st)) ELSE {st[1].n - 1, st[1].n})
         \cup {BufLen(st)}

\* the connection when the reply to command buf starts to arrive
Tracked(buf) == track_query(Authenticated, buf)

InitFramer ==
    /\ \E buf \in {ClientPacket(MXS_COM_QUERY, <<83>>), StmtFetch} :
          /\ Holds(Tracked(buf))
          /\ h_cmd = buf
    /\ \E st \in Streams :
          /\ stream = st
          /\ h_stream = st
    /\ readq = <<>>
    /\ h_emitted = <<>>
    /\ InitHistory
    /\ InitDcb

\* a read event: k more bytes arrive behind the read queue, track_response
\* splits off the complete packets and the rest becomes the read queue
Feed(k) ==
    /\ stream # <<>>
    /\ LET read_buffer == Cat(readq, BufTake(stream, k))
           r == process_packets(Self, read_buffer)
       IN /\ Commit(r.s)
          /\ readq' = r.rest
          /\ h_emitted' = Cat(h_emitted, r.packets)
    /\ stream' = BufDrop(stream, k)
    /\ h_last' = [op |-> "process_packets", pre_state |-> m_reply.state,
                  pre_skip |-> m_skip_next, after_tail |-> FALSE]
    /\ UNCHANGED <<h_stream, h_cmd, srv, h_req, dcbvars>>

NextFramer == \E k \in Cuts(stream) : Feed(k)

SpecFramer == InitFramer /\ [][NextFramer]_vars

\* the length in the header at the front of buf
HeaderLen(buf) == BufAt(buf, 1) + 256 * BufAt(buf, 2) + 65536 * BufAt(buf, 3)

\* buf holds no complete packet: a part of a header, or a header and a part of
\* its payload
Incomplete(buf) ==
    \/ BufLen(buf) < MYSQL_HEADER_LEN
    \/ BufLen(buf) < MYSQL_HEADER_LEN + HeaderLen(buf)

\* buf is a sequence of whole packets
RECURSIVE IsPacketSeq(_)
IsPacketSeq(buf) ==
    \/ buf = <<>>
    \/ /\ ~Incomplete(buf)
       /\ IsPacketSeq(BufDrop(buf, MYSQL_HEADER_LEN + HeaderLen(buf)))

\* the bytes that have arrived so far
Arrived == BufTake(h_stream, BufLen(h_stream) - BufLen(stream))

\* C7: however the bytes that have arrived were split into chunks, the packets
\* emitted, the reply (its state and row count), the skip flag and the bytes
\* left in the buffer are those of one call of process_packets on all the
\* bytes at once; what is emitted is a sequence of whole packets, and what is
\* left is the truncated header or payload at the end, of which nothing was
\* consumed.
C7_ChunkIndependence ==
    LET whole == process_packets(Tracked(h_cmd), Arrived)
    IN /\ h_emitted = whole.packets
       /\ readq = whole.rest
       /\ m_reply = whole.s.m_reply
       /\ m_skip_next = whole.s.m_skip_next
       /\ IsPacketSeq(h_emitted)
       /\ Cat(h_emitted, readq) = Arrived
       /\ readq # <<>> => Incomplete(readq)

\* in the middle of the stream: a maximum-length row has been emitted and
\* counted, a part of the next packet waits in the read queue, more is to come
C7_Witness ==
    /\ h_emitted # <<>>
    /\ readq # <<>>
    /\ stream # <<>>
    /\ m_skip_next
    /\ m_reply.state = "RSET_ROWS"
    /\ m_reply.rows = 1

(* ---------------------------------------------------------------------- *)
(* Authentication, write() and the delay queue (SpecAuth)                  *)
(* ---------------------------------------------------------------------- *)
\* A GWBUF handed to write() is a sequence of packets; the write queue and the
\* delay queue of the DCB are the packets appended to them, in order.
MaxQueued == 2
MaxWriteq == 4
MaxTasks == 1
MaxUpstream == 1
MaxDelayed == 1

\* the type of a buffer, kept on its first packet
HasType(buffer, type) == "type" \in DOMAIN buffer[1] /\ buffer[1].type = type
gwbuf_is_ignorable(buffer) == HasType(buffer, "IGNORABLE")
gwbuf_should_collect_result(buffer) == HasType(buffer, "COLLECT_RESULT")
gwbuf_should_track_state(buffer) == HasType(buffer, "TRACK_STATE")

modutil_create_ignorable_ping ==
    <<[len |-> 1, data |-> <<MXS_COM_PING>>, type |-> "IGNORABLE"]>>

\* "mysql_native_password"
DEFAULT_MYSQL_AUTH_PLUGIN ==
    <<109, 121, 115, 113, 108, 95, 110, 97, 116, 105, 118, 101, 95,
      112, 97, 115, 115, 119, 111, 114, 100>>

\* a ^ b on bytes
RECURSIVE Xor8(_, _)
Xor8(a, b) ==
    IF a = 0 /\ b = 0 THEN 0
    ELSE ((a + b) % 2) + 2 * Xor8(a \div 2, b \div 2)

gw_str_xor(a, b) ==
    CHOOSE output \in {[i \in 1..GW_MYSQL_SCRAMBLE_SIZE |-> Xor8(input1[i], input2[i])] :
                          input1 \in {a}, input2 \in {b}} : TRUE

\* SHA1 of a string of bytes: twenty bytes, each of which depends on every
\* byte of the string, on the order of the bytes and on its place (a chained
\* mixing stands for the digest of the library). A step of the chain is
\* one-to-one in the state and in the byte: the cube modulo the prime 1019.
Stir(x) == ((x % 1019) * (x % 1019) * (x % 1019)) % 1019

RECURSIVE Mix(_, _, _)
Mix(in, k, h) ==
    IF k > Len(in) THEN h
    ELSE CHOOSE r \in {Mix(in, next, v) :
                          next \in {k + 1},
                          v \in {Stir(h + in[k] + k)}} : TRUE

\* the string is evaluated and mixed once, then spread over the twenty bytes
SHA1(in) ==
    CHOOSE digest \in UNION {{[i \in 1..GW_MYSQL_SCRAMBLE_SIZE |-> Stir(h + i) % 256] :
                                   h \in {Mix(str, 1, 0)}} : str \in {in}} : TRUE

\* SHA1 of twenty bytes, and of the concatenation of two strings
gw_sha1_str(in) == SHA1(in)
gw_sha1_2_str(in1, in2) == SHA1(in1 \o in2)

\* mutant: the digest of the password comes before the scramble
mxs_mysql_calculate_hash_swapped(scramble, passwd) ==
    gw_str_xor(gw_sha1_2_str(gw_sha1_str(passwd), scramble), passwd)

\* SHA1(scramble ++ SHA1(passwd)) ^ passwd
mxs_mysql_calculate_hash(scramble, passwd) ==
    gw_str_xor(gw_sha1_2_str(scramble, gw_sha1_str(passwd)), passwd)

\* the COM_CHANGE_USER the connection builds itself: sequence 0, command 0x11,
\* the user name, the length and bytes of the scrambled password, the
\* database, the character set, the plugin name and the attributes
gw_create_change_user_packet(s) ==
    LET mses == s.m_client_data
        curr_passwd == Len(mses.auth_token_phase2) = GW_MYSQL_SCRAMBLE_SIZE
        bytes ==
            <<MXS_COM_CHANGE_USER>> \o mses.user \o <<0>>
            \o (IF curr_passwd
                THEN LET hash1 == mses.auth_token_phase2
                         hash2 == gw_sha1_str(hash1)
                         new_sha == gw_sha1_2_str(s.m_scramble, hash2)
                         client_scramble == gw_str_xor(new_sha, hash1)
                     IN <<GW_MYSQL_SCRAMBLE_SIZE>> \o client_scramble
                ELSE <<0>>)
            \o mses.db \o <<0>>
            \o <<mses.charset, 0>>
            \o DEFAULT_MYSQL_AUTH_PLUGIN \o <<0>>
            \o mses.connect_attrs
    IN CHOOSE buffer \in {<<[len |-> Len(payload), seq |-> 0, data |-> payload,
                             type |-> "COLLECT_RESULT"]>> : payload \in {bytes}} : TRUE

\* a & b and a | b on capability masks
RECURSIVE BitAnd(_, _)
BitAnd(a, b) ==
    IF a = 0 \/ b = 0 THEN 0
    ELSE (a % 2) * (b % 2) + 2 * BitAnd(a \div 2, b \div 2)

BitOr(a, b) == a + b - BitAnd(a, b)

\* gw_mysql_set_byte4: little-endian
Byte4(x) == <<x % 256, (x \div 256) % 256, (x \div 65536) % 256, (x \div 16777216) % 256>>

\* the capabilities sent to the backend: the client's known ones, SSL,
\* session tracking if the service asks for it, multi statements, the
\* database flag by the database, plugin authentication
create_capabilities(s, with_ssl, db_specified, capabilities) ==
    LET c0 == BitAnd(s.m_client_data.client_capabilities, GW_MYSQL_CAPABILITIES_CLIENT)
        c1 == IF with_ssl THEN BitOr(c0, GW_MYSQL_CAPABILITIES_SSL) ELSE c0
        c2 == IF rcap_type_required(capabilities, "SESSION_STATE_TRACKING")
              THEN BitOr(c1, GW_MYSQL_CAPABILITIES_SESSION_TRACK) ELSE c1
        c3 == BitOr(c2, GW_MYSQL_CAPABILITIES_MULTI_STATEMENTS)
        c4 == IF db_specified
              THEN BitOr(c3, GW_MYSQL_CAPABILITIES_CONNECT_WITH_DB)
              ELSE c3 - BitAnd(c3, GW_MYSQL_CAPABILITIES_CONNECT_WITH_DB)
    IN BitOr(c4, GW_MYSQL_CAPABILITIES_PLUGIN_AUTH)

\* the length of the response with its header
response_length(with_ssl, ssl_established, user, passwd, dbname, auth_module) ==
    IF with_ssl /\ ~ssl_established
    THEN MYSQL_AUTH_PACKET_BASE_SIZE
    ELSE 32 + Len(user) + 1
         + (IF passwd THEN GW_MYSQL_SCRAMBLE_SIZE ELSE 0) + 1
         + (IF dbname # <<>> THEN Len(dbname) + 1 ELSE 0)
         + Len(auth_module) + 1
         + 4

\* *payload++ = 20, then the twenty bytes of the scrambled password
load_hashed_password(scramble, passwd) ==
    <<GW_MYSQL_SCRAMBLE_SIZE>> \o mxs_mysql_calculate_hash(scramble, passwd)

\* the handshake response: sequence 1, or 2 over TLS; the capabilities, the
\* maximum packet size, the character set, 19 zeros and the extra
\* capabilities; then, unless TLS is required and not yet established, the
\* user name, the scrambled password or a zero, the database, the plugin
\* name and the connection attributes. The buffer is zeroed and bytes long:
\* what is not written stays zero.
gw_generate_auth_response(s, with_ssl, ssl_established, service_capabilities) ==
    LET client == s.m_client_data
        curr_passwd == client.auth_token_phase2 # <<>>
        Response(capabilities) ==
            LET attrs == BitAnd(BitAnd(capabilities, s.server_capabilities),
                                GW_MYSQL_CAPABILITIES_CONNECT_ATTRS) # 0
                bytes == response_length(with_ssl, ssl_established, client.user,
                                         curr_passwd, client.db, DEFAULT_MYSQL_AUTH_PLUGIN)
                         + (IF attrs THEN Len(client.connect_attrs) ELSE 0)
                written ==
                    Byte4(capabilities) \o Byte4(16777216) \o <<client.charset>>
                    \o [i \in 1..19 |-> 0] \o Byte4(client.extra_capabilities)
                    \o (IF ~with_ssl \/ ssl_established
                        THEN client.user \o <<0>>
                             \o (IF curr_passwd
                                 THEN load_hashed_password(s.m_scramble,
                                                           client.auth_token_phase2)
                                 ELSE <<0>>)
                             \o (IF client.db # <<>> THEN client.db \o <<0>> ELSE <<>>)
                             \o DEFAULT_MYSQL_AUTH_PLUGIN
                             \o (IF attrs /\ client.connect_attrs # <<>>
                                 THEN <<0>> \o client.connect_attrs ELSE <<>>)
                        ELSE <<>>)
            IN {<<[len |-> payload_len,
                   seq |-> IF ssl_established THEN 2 ELSE 1,
                   data |-> [i \in 1..payload_len |->
                               IF i <= Len(payload) THEN payload[i] ELSE 0]]>> :
                    payload_len \in {bytes - MYSQL_HEADER_LEN}, payload \in {written}}
    IN CHOOSE buffer \in UNION {Response(capabilities) :
                 capabilities \in {create_capabilities(s, with_ssl, client.db # <<>>,
                                                       service_capabilities)}} : TRUE

is_error_response(buffer) == buffer[1].len > 0 /\ buffer[1].data[1] = MYSQL_REPLY_ERR

\* the handshake of the server: the protocol version, which must be 10, the
\* version string, and the scramble, which is kept in m_scramble
\* gw_strend: the place of the NUL that ends the string at payload[p]
gw_strend(payload, p) ==
    CHOOSE i \in p..Len(payload) : payload[i] = 0 /\ \A j \in p..(i - 1) : payload[j] # 0

\* the protocol version, the version string up to its NUL, four bytes of
\* thread id, the first eight bytes of the scramble, a filler, the
\* capabilities, the character set and the status (seven bytes), the length
\* byte, ten more bytes, and the rest of the scramble; the scramble buffers
\* start as zeros, so that a scramble shorter than twenty bytes ends in
\* zeros; the capabilities are kept before the length is tested (the thread
\* id is read but not kept here; the assertions on scramble_len are those of
\* a debug build and are left out)
gw_decode_mysql_server_handshake(s, payload) ==
    IF payload[1] # GW_MYSQL_PROTOCOL_VERSION
    THEN [rc |-> -1, s |-> s]
    ELSE LET tid == gw_strend(payload, 2) + 1
             part1 == tid + 4
             lenbyte == part1 + GW_SCRAMBLE_LENGTH_323 + 1 + 5 + 2
             scramble_len == IF payload[lenbyte] > 0 THEN payload[lenbyte] - 1
                             ELSE GW_MYSQL_SCRAMBLE_SIZE
             part2 == lenbyte + 11
             scramble_data_1 == SubSeq(payload, part1, part1 + GW_SCRAMBLE_LENGTH_323 - 1)
             scramble_data_2 == SubSeq(payload, part2,
                                       part2 + scramble_len - GW_SCRAMBLE_LENGTH_323 - 1)
             mxs_scramble == scramble_data_1 \o scramble_data_2
                             \o [i \in 1..(GW_MYSQL_SCRAMBLE_SIZE - scramble_len) |-> 0]
             s1 == [s EXCEPT !.server_capabilities =
                        U16(payload, part1 + GW_SCRAMBLE_LENGTH_323 + 1)
                        + 65536 * U16(payload, part1 + GW_SCRAMBLE_LENGTH_323 + 1 + 5)]
         IN IF scramble_len < GW_SCRAMBLE_LENGTH_323 \/ scramble_len > GW_MYSQL_SCRAMBLE_SIZE
            THEN [rc |-> -2, s |-> s1]
            ELSE [rc |-> 0, s |-> [s1 EXCEPT !.m_scramble = mxs_scramble]]

gw_read_backend_handshake(s, buffer) ==
    LET r == gw_decode_mysql_server_handshake(s, buffer[1].data)
    IN [rval |-> r.rc >= 0, s |-> r.s]

do_handle_error(d) == [d EXCEPT !.handle_error = TRUE]

\* mutant: every error response sets the server into maintenance
handle_error_response_any(d, buffer) == [d EXCEPT !.main_worker = @ + 1]

\* main_worker counts the tasks posted to the main worker; each of them sets
\* the server into maintenance
handle_error_response(d, buffer) ==
    IF U16(buffer[1].data, 2) = ER_HOST_IS_BLOCKED
    THEN [d EXCEPT !.main_worker = @ + 1]
    ELSE d

\* mutant: an incomplete authentication counts as a success
handle_server_response_lenient(s, auth) ==
    LET rval == IF s.m_auth_state = "CONNECTED" THEN "FAIL_HANDSHAKE" ELSE "FAIL"
    IN IF auth \in {"INCOMPLETE", "SUCCESS"} THEN "COMPLETE" ELSE rval

\* auth is what the authenticator makes of the packet
handle_server_response(s, auth) ==
    LET rval == IF s.m_auth_state = "CONNECTED" THEN "FAIL_HANDSHAKE" ELSE "FAIL"
    IN CASE auth = "INCOMPLETE" -> "RESPONSE_SENT"
         [] auth = "SUCCESS" -> "COMPLETE"
         [] OTHER -> rval

prepare_for_write(s, buffer) ==
    LET s1 == IF ~gwbuf_is_ignorable(buffer) THEN track_query(s, buffer[1]) ELSE s
        s2 == IF gwbuf_should_collect_result(buffer)
              THEN [s1 EXCEPT !.m_collect_result = TRUE] ELSE s1
    IN [s2 EXCEPT !.m_track_state = gwbuf_should_track_state(buffer)]

\* mutant: the response counts as sent once the stub is written
gw_send_backend_auth_stub(s, d, ssl_handshake) ==
    IF \/ d.session_state \notin {"CREATED", "STARTED"}
       \/ d.ssl_context /\ d.ssl_state = "HANDSHAKE_FAILED"
    THEN [s |-> [s EXCEPT !.m_auth_state = "FAIL"], dcb |-> d]
    ELSE LET ssl_established == d.ssl_state = "ESTABLISHED"
             s1 == [s EXCEPT !.writeq = @ \o gw_generate_auth_response(s, d.ssl_context,
                                        ssl_established, d.capabilities)]
         IN IF d.ssl_context /\ ~ssl_established
            THEN [s |-> [s1 EXCEPT !.m_auth_state =
                             IF ssl_handshake # "HANDSHAKE_FAILED" THEN "RESPONSE_SENT" ELSE "FAIL"],
                  dcb |-> [d EXCEPT !.ssl_state = ssl_handshake]]
            ELSE [s |-> [s1 EXCEPT !.m_auth_state = "RESPONSE_SENT"], dcb |-> d]

\* ssl_handshake is the outcome of starting the TLS handshake on the DCB
gw_send_backend_auth(s, d, ssl_handshake) ==
    IF \/ d.session_state \notin {"CREATED", "STARTED"}
       \/ d.ssl_context /\ d.ssl_state = "HANDSHAKE_FAILED"
    THEN [s |-> [s EXCEPT !.m_auth_state = "FAIL"], dcb |-> d]
    ELSE LET ssl_established == d.ssl_state = "ESTABLISHED"
             s1 == [s EXCEPT !.writeq = @ \o gw_generate_auth_response(s, d.ssl_context,
                                        ssl_established, d.capabilities)]
         IN IF d.ssl_context /\ ~ssl_established
            THEN [s |-> [s1 EXCEPT !.m_auth_state =
                             IF ssl_handshake # "HANDSHAKE_FAILED" THEN "CONNECTED" ELSE "FAIL"],
                  dcb |-> [d EXCEPT !.ssl_state = ssl_handshake]]
            ELSE [s |-> [s1 EXCEPT !.m_auth_state = "RESPONSE_SENT"], dcb |-> d]

\* mutant: the queued buffer is written without its first packet
backend_write_delayqueue_tail(s, d, buffer) ==
    [s EXCEPT !.writeq = @ \o Tail(buffer)]

backend_write_delayqueue(s, d, buffer) ==
    LET buffer1 == IF buffer[1].data[1] = MXS_COM_CHANGE_USER
                   THEN gw_create_change_user_packet(s) ELSE buffer
    IN IF buffer1[1].data[1] = MXS_COM_QUIT /\ d.persistent_conns_enabled
       THEN s
       ELSE [s EXCEPT !.writeq = @ \o buffer1]

\* mutant: the buffer is put in front of the stored query
handle_persistent_connection_front(s, d, queue) ==
    IF queue[1].data[1] = MXS_COM_QUIT
    THEN [s |-> s, dcb |-> [d EXCEPT !.hangup_event = TRUE], rc |-> 0]
    ELSE [s |-> [s EXCEPT !.m_stored_query = queue \o @], dcb |-> d, rc |-> 1]

handle_persistent_connection(s, d, queue) ==
    IF queue[1].data[1] = MXS_COM_QUIT
    THEN [s |-> s, dcb |-> [d EXCEPT !.hangup_event = TRUE], rc |-> 0]
    ELSE [s |-> [s EXCEPT !.m_stored_query = @ \o queue], dcb |-> d, rc |-> 1]

gw_send_change_user_to_backend(s) ==
    [s EXCEPT !.writeq = @ \o gw_create_change_user_packet(s), !.m_changing_user = TRUE]

\* mutant: a buffer is sent although a reply to ignore is awaited
write_through(s, d, queue) ==
    IF s.m_auth_state \in {"FAIL_HANDSHAKE", "FAIL"}
    THEN [s |-> s, dcb |-> d, rc |-> 0]
    ELSE IF s.m_auth_state = "COMPLETE"
    THEN LET cmd == queue[1].data[1]
             s1 == prepare_for_write(s, queue)
         IN IF s1.m_reply.command = MXS_COM_CHANGE_USER
            THEN [s |-> gw_send_change_user_to_backend(s1), dcb |-> d, rc |-> 1]
            ELSE IF cmd = MXS_COM_QUIT /\ d.persistent_conns_enabled
            THEN [s |-> s1, dcb |-> d, rc |-> 1]
            ELSE [s |-> [s1 EXCEPT !.m_ignore_replies =
                                       IF gwbuf_is_ignorable(queue) THEN @ + 1 ELSE @,
                                   !.writeq = @ \o queue],
                  dcb |-> d, rc |-> 1]
    ELSE [s |-> [s EXCEPT !.delayq = @ \o queue], dcb |-> d, rc |-> 1]

\* mutant: write() treats every auth state as Complete
write_unchecked(s, d, queue) ==
    [s |-> [prepare_for_write(s, queue) EXCEPT !.writeq = @ \o queue], dcb |-> d, rc |-> 1]

write(s, d, queue) ==
    IF s.m_ignore_replies > 0 THEN handle_persistent_connection(s, d, queue)
    ELSE IF s.m_auth_state \in {"FAIL_HANDSHAKE", "FAIL"}
    THEN [s |-> s, dcb |-> d, rc |-> 0]
    ELSE IF s.m_auth_state = "COMPLETE"
    THEN LET cmd == queue[1].data[1]
             s1 == prepare_for_write(s, queue)
         IN IF s1.m_reply.command = MXS_COM_CHANGE_USER
            THEN [s |-> gw_send_change_user_to_backend(s1), dcb |-> d, rc |-> 1]
            ELSE IF cmd = MXS_COM_QUIT /\ d.persistent_conns_enabled
            THEN [s |-> s1, dcb |-> d, rc |-> 1]
            ELSE [s |-> [s1 EXCEPT !.m_ignore_replies =
                                       IF gwbuf_is_ignorable(queue) THEN @ + 1 ELSE @,
                                   !.writeq = @ \o queue],
                  dcb |-> d, rc |-> 1]
    ELSE [s |-> [s EXCEPT !.delayq = @ \o queue], dcb |-> d, rc |-> 1]

\* mutant: ping() writes whatever the state of the reply
ping_eager(s, d) ==
    LET r == write(s, d, modutil_create_ignorable_ping) IN [s |-> r.s, dcb |-> r.dcb]

\* ping(): an ignorable COM_PING goes to write() if the reply is done
ping(s, d) ==
    IF s.m_reply.state = "DONE"
    THEN LET r == write(s, d, modutil_create_ignorable_ping) IN [s |-> r.s, dcb |-> r.dcb]
    ELSE [s |-> s, dcb |-> d]

(* ---------------------------------------------------------------------- *)
(* Reading from an authenticated backend (gw_read_and_write)               *)
(*                                                                         *)
(* The service asks for RCAP_TYPE_REQUEST_TRACKING and not for             *)
(* RCAP_TYPE_STMT_OUTPUT: replies are tracked by track_response and a      *)
(* result is collected in m_collectq. A read returns whole packets.        *)
(* ---------------------------------------------------------------------- *)
\* the bytes of a buffer: header and payload of each of its packets
RECURSIVE gwbuf_length(_)
gwbuf_length(buffer) ==
    IF buffer = <<>> THEN 0
    ELSE MYSQL_HEADER_LEN + buffer[1].len + gwbuf_length(Tail(buffer))

\* the string at data[i]: the bytes before the first NUL
RECURSIVE CStr(_, _)
CStr(data, i) ==
    IF i > Len(data) \/ data[i] = 0 THEN <<>> ELSE <<data[i]>> \o CStr(data, i + 1)

auth_change_requested(buf) ==
    /\ buf[1].data[1] = MYSQL_REPLY_AUTHSWITCHREQUEST
    /\ gwbuf_length(buf) > MYSQL_EOF_PACKET_LEN

\* mutant: the response to an AuthSwitchRequest carries the sequence number 3
send_mysql_native_password_response_seq3(s) ==
    LET curr_passwd == IF s.m_client_data.auth_token_phase2 = <<>>
                       THEN Bytes20(0) ELSE s.m_client_data.auth_token_phase2
    IN [s EXCEPT !.writeq = Append(@,
            [len |-> GW_MYSQL_SCRAMBLE_SIZE, seq |-> 3,
             data |-> mxs_mysql_calculate_hash(s.m_scramble, curr_passwd)])]

\* one packet of twenty bytes: the password scrambled with m_scramble
send_mysql_native_password_response(s) ==
    LET curr_passwd == IF s.m_client_data.auth_token_phase2 = <<>>
                       THEN Bytes20(0) ELSE s.m_client_data.auth_token_phase2
    IN [s EXCEPT !.writeq = Append(@,
            [len |-> GW_MYSQL_SCRAMBLE_SIZE, seq |-> 2,
             data |-> mxs_mysql_calculate_hash(s.m_scramble, curr_passwd)])]

\* mutant: the scramble of the AuthSwitchRequest is not loaded
handle_auth_change_response_stale(s, reply) ==
    IF CStr(reply[1].data, 2) = DEFAULT_MYSQL_AUTH_PLUGIN
    THEN [rval |-> TRUE, s |-> send_mysql_native_password_response(s)]
    ELSE [rval |-> FALSE, s |-> s]

\* the plugin name follows the 0xFE, the new scramble follows the name
handle_auth_change_response(s, reply) ==
    IF CStr(reply[1].data, 2) = DEFAULT_MYSQL_AUTH_PLUGIN
    THEN LET at == 2 + Len(DEFAULT_MYSQL_AUTH_PLUGIN) + 1
             s1 == [s EXCEPT !.m_scramble =
                        SubSeq(reply[1].data, at, at + GW_MYSQL_SCRAMBLE_SIZE - 1)]
         IN [rval |-> TRUE, s |-> send_mysql_native_password_response(s1)]
    ELSE [rval |-> FALSE, s |-> s]

session_ok_to_route(d) == d.session_state = "STARTED"

\* m_upstream->clientReply(stmt, route, m_reply): m_upstream keeps the last
\* MaxUpstream calls; result tells a collected result, complete a complete reply
clientReply(s, stmt, result_collected) ==
    LET calls == Append(s.m_upstream,
                        [stmt |-> stmt, result |-> result_collected,
                         complete |-> Reply_is_complete(s.m_reply)])
    IN [s EXCEPT !.m_upstream =
            SubSeq(calls, Len(calls) - Min(Len(calls), MaxUpstream) + 1, Len(calls))]

\* track_response on a buffer of whole packets: process_packets classifies
\* each of them
RECURSIVE track_response(_, _)
track_response(s, buffer) ==
    IF buffer = <<>> THEN s
    ELSE track_response(process_packet(s, buffer[1]), Tail(buffer))

\* mutant: the stored query is lost when the authentication method is switched
ignored_reply_forgetful(s, d, read_buffer) ==
    LET query == s.m_stored_query
        s1 == [s EXCEPT !.m_stored_query = <<>>, !.m_ignore_replies = @ - 1]
        reply == <<read_buffer[Len(read_buffer)]>>
        result == reply[1].data[1]
    IN IF result = MYSQL_REPLY_OK
       THEN IF query # <<>> THEN write(s1, d, query) ELSE [s |-> s1, dcb |-> d, rc |-> 1]
       ELSE IF auth_change_requested(reply)
       THEN LET r == handle_auth_change_response(s1, reply)
            IN IF r.rval
               THEN [s |-> [r.s EXCEPT !.m_ignore_replies = @ + 1], dcb |-> d, rc |-> 0]
               ELSE [s |-> s1, dcb |-> [d EXCEPT !.hangup_event = TRUE], rc |-> 0]
       ELSE LET d1 == IF result = MYSQL_REPLY_ERR THEN handle_error_response(d, reply) ELSE d
            IN [s |-> s1, dcb |-> [d1 EXCEPT !.hangup_event = TRUE], rc |-> 0]

\* mutant: after a reply that is neither OK nor an AuthSwitchRequest the
\* stored query stays and the connection stays open
ignored_reply_tolerant(s, d, read_buffer) ==
    LET query == s.m_stored_query
        s1 == [s EXCEPT !.m_stored_query = <<>>, !.m_ignore_replies = @ - 1]
        reply == <<read_buffer[Len(read_buffer)]>>
        result == reply[1].data[1]
    IN IF result = MYSQL_REPLY_OK
       THEN IF query # <<>> THEN write(s1, d, query) ELSE [s |-> s1, dcb |-> d, rc |-> 1]
       ELSE IF auth_change_requested(reply)
       THEN LET r == handle_auth_change_response(s1, reply)
            IN IF r.rval
               THEN [s |-> [r.s EXCEPT !.m_stored_query = query, !.m_ignore_replies = @ + 1],
                     dcb |-> d, rc |-> 0]
               ELSE [s |-> s1, dcb |-> [d EXCEPT !.hangup_event = TRUE], rc |-> 0]
       ELSE LET d1 == IF result = MYSQL_REPLY_ERR THEN handle_error_response(d, reply) ELSE d
            IN [s |-> [s1 EXCEPT !.m_stored_query = query], dcb |-> d1, rc |-> 0]

\* the reply to the COM_CHANGE_USER of reuse_connection, or to an ignorable
\* command, is the last packet of read_buffer
ignored_reply(s, d, read_buffer) ==
    LET query == s.m_stored_query
        s1 == [s EXCEPT !.m_stored_query = <<>>, !.m_ignore_replies = @ - 1]
        reply == <<read_buffer[Len(read_buffer)]>>
        result == reply[1].data[1]
    IN IF result = MYSQL_REPLY_OK
       THEN IF query # <<>> THEN write(s1, d, query) ELSE [s |-> s1, dcb |-> d, rc |-> 1]
       ELSE IF auth_change_requested(reply)
       THEN LET r == handle_auth_change_response(s1, reply)
            IN IF r.rval
               THEN [s |-> [r.s EXCEPT !.m_stored_query = query, !.m_ignore_replies = @ + 1],
                     dcb |-> d, rc |-> 0]
               ELSE [s |-> s1, dcb |-> [d EXCEPT !.hangup_event = TRUE], rc |-> 0]
       ELSE LET d1 == IF result = MYSQL_REPLY_ERR THEN handle_error_response(d, reply) ELSE d
            IN [s |-> s1, dcb |-> [d1 EXCEPT !.hangup_event = TRUE], rc |-> 0]

\* what gw_read_and_write does with the complete packets read_buffer: the
\* response to a client's COM_CHANGE_USER, the ignored replies, and the call
\* of clientReply
route_reply(s, d, read_buffer, result_collected) ==
    LET r == IF s.m_changing_user /\ auth_change_requested(read_buffer)
             THEN handle_auth_change_response(s, read_buffer)
             ELSE [rval |-> FALSE, s |-> s]
    IN IF s.m_changing_user /\ r.rval
       THEN [s |-> r.s, dcb |-> d, rc |-> 0]
       ELSE LET s1 == IF s.m_changing_user
                      THEN [s EXCEPT !.m_changing_user = FALSE,
                                     !.m_client_data.changing_user = FALSE]
                      ELSE s
                buffer1 == IF s.m_changing_user
                           THEN [read_buffer EXCEPT ![1].seq = 3]
                           ELSE read_buffer
            IN IF s1.m_ignore_replies > 0
               THEN ignored_reply(s1, d, buffer1)
               ELSE IF session_ok_to_route(d)
               THEN [s |-> clientReply(s1, buffer1, result_collected), dcb |-> d, rc |-> 1]
               ELSE [s |-> s1, dcb |-> d, rc |-> 1]

\* mutant: a failed read fails the authentication, and what is read is dropped
gw_read_and_write_failing(s, d, ev) ==
    IF ev.rc < 0
    THEN [s |-> [s EXCEPT !.m_auth_state = "FAIL"], dcb |-> do_handle_error(d), rc |-> 0]
    ELSE [s |-> s, dcb |-> d, rc |-> ev.rc]

\* mutant: what is read is put in front of the collected packets
gw_read_and_write_lifo(s, d, ev) ==
    IF ev.rc < 0 THEN [s |-> s, dcb |-> do_handle_error(d), rc |-> 0]
    ELSE IF ev.pkts = <<>> THEN [s |-> s, dcb |-> d, rc |-> ev.rc]
    ELSE LET s1 == IF s.m_ignore_replies = 0 THEN track_response(s, ev.pkts) ELSE s
             collecting == s1.m_collect_result
             s2 == IF collecting THEN [s1 EXCEPT !.m_collectq = ev.pkts \o @] ELSE s1
         IN IF collecting /\ ~Reply_is_complete(s2.m_reply)
            THEN [s |-> s2, dcb |-> d, rc |-> 0]
            ELSE IF collecting
            THEN route_reply([s2 EXCEPT !.m_collectq = <<>>, !.m_collect_result = FALSE],
                             d, s2.m_collectq, TRUE)
            ELSE route_reply(s2, d, ev.pkts, FALSE)

\* ev.rc is what dcb->read returns and ev.pkts the packets it has read
gw_read_and_write(s, d, ev) ==
    IF ev.rc < 0 THEN [s |-> s, dcb |-> do_handle_error(d), rc |-> 0]
    ELSE IF ev.pkts = <<>> THEN [s |-> s, dcb |-> d, rc |-> ev.rc]
    ELSE LET capabilities == d.capabilities
             framed == \/ rcap_type_required(capabilities, "PACKET_OUTPUT")
                       \/ rcap_type_required(capabilities, "CONTIGUOUS_OUTPUT")
                       \/ s.m_collect_result
                       \/ s.m_ignore_replies # 0
             s1 == IF framed /\ s.m_ignore_replies = 0
                   THEN track_response(s, ev.pkts) ELSE s
             collecting == /\ framed
                           /\ \/ rcap_type_required(capabilities, "CONTIGUOUS_OUTPUT")
                              \/ s1.m_collect_result
                              \/ s1.m_ignore_replies # 0
                           /\ \/ rcap_type_required(capabilities, "RESULTSET_OUTPUT")
                              \/ s1.m_collect_result
             s2 == IF collecting THEN [s1 EXCEPT !.m_collectq = @ \o ev.pkts] ELSE s1
         IN IF collecting /\ ~Reply_is_complete(s2.m_reply)
            THEN [s |-> s2, dcb |-> d, rc |-> 0]
            ELSE IF collecting
            THEN route_reply([s2 EXCEPT !.m_collectq = <<>>, !.m_collect_result = FALSE],
                             d, s2.m_collectq, TRUE)
            ELSE route_reply(s2, d, ev.pkts, FALSE)


\* ev is what the read finds: before the authentication is complete an error,
\* no complete packet, or a packet; after it the result of the read and the
\* packets read
ready_for_reading(s, d, ev) ==
    IF s.m_auth_state = "COMPLETE"
    THEN LET r == gw_read_and_write(s, d, ev) IN [s |-> r.s, dcb |-> r.dcb]
    ELSE IF ev.kind = "read_error"
    THEN [s |-> [s EXCEPT !.m_auth_state = "FAIL"], dcb |-> do_handle_error(d)]
    ELSE IF ev.kind = "none"
    THEN IF s.m_auth_state = "CONNECTED" /\ d.ssl_state = "ESTABLISHED"
         THEN gw_send_backend_auth(s, d, ev.ssl_handshake)
         ELSE [s |-> s, dcb |-> d]
    ELSE LET readbuf == <<ev.pkt>>
             err == is_error_response(readbuf)
             s1 == IF err THEN [s EXCEPT !.m_auth_state = "FAIL"] ELSE s
             d1 == IF err THEN handle_error_response(d, readbuf) ELSE d
             hs == gw_read_backend_handshake(s1, readbuf)
             r2 == IF s1.m_auth_state = "CONNECTED"
                   THEN IF hs.rval
                        THEN gw_send_backend_auth(hs.s, d1, ev.ssl_handshake)
                        ELSE [s |-> [hs.s EXCEPT !.m_auth_state = "FAIL"], dcb |-> d1]
                   ELSE IF s1.m_auth_state = "RESPONSE_SENT"
                   THEN [s |-> [s1 EXCEPT !.m_auth_state = handle_server_response(s1, ev.auth)],
                         dcb |-> d1]
                   ELSE [s |-> s1, dcb |-> d1]
         IN IF r2.s.m_auth_state = "COMPLETE"
            THEN LET localq == r2.s.delayq
                     s3 == [r2.s EXCEPT !.delayq = <<>>]
                 IN IF localq # <<>>
                    THEN [s |-> backend_write_delayqueue(prepare_for_write(s3, localq),
                                                         r2.dcb, localq),
                          dcb |-> r2.dcb]
                    ELSE [s |-> s3, dcb |-> r2.dcb]
            ELSE IF r2.s.m_auth_state \in {"FAIL", "FAIL_HANDSHAKE"}
            THEN [s |-> r2.s, dcb |-> do_handle_error(r2.dcb)]
            ELSE r2


\* what the client writes before and after authentication
AuthClientBuffers ==
    {<<ClientPacket(c, <<83>>)>> : c \in {MXS_COM_QUERY, MXS_COM_QUIT, MXS_COM_CHANGE_USER}}

\* the server's handshake with protocol version v, the version string "5",
\* thread id 1, the length byte auth_len and the twenty bytes scramble, which
\* a NUL follows; the capabilities it announces are 0x01FFF7FF
Handshake(v, auth_len, scramble) ==
    LET data == <<v, 53, 0>> \o <<1, 0, 0, 0>>
                \o SubSeq(scramble, 1, GW_SCRAMBLE_LENGTH_323) \o <<0>>
                \o <<255, 247>> \o <<8>> \o <<2, 0>> \o <<255, 1>>
                \o <<auth_len>> \o [i \in 1..10 |-> 0]
                \o SubSeq(scramble, GW_SCRAMBLE_LENGTH_323 + 1, GW_MYSQL_SCRAMBLE_SIZE) \o <<0>>
    IN [len |-> Len(data), seq |-> 0, data |-> data]

\* what servers send: the length byte is 21, the scramble twenty bytes 7
ServerHandshake(v) == Handshake(v, GW_MYSQL_SCRAMBLE_SIZE + 1, Bytes20(7))
\* a packet of authentication data: 0x01 and a byte
AuthMoreData == [len |-> 2, seq |-> 2, data |-> <<1, 4>>]

AuthPackets ==
    {ServerHandshake(10), ServerHandshake(9), ErrPacket(1045), ErrPacket(ER_HOST_IS_BLOCKED),
     OkPacket(0, 0), AuthMoreData}

\* what starting the TLS handshake gives, and what the authenticator answers
SslOutcomes == {"HANDSHAKE_REQUIRED", "ESTABLISHED", "HANDSHAKE_FAILED"}
AuthResults == {"EXTRACT_FAILED", "INCOMPLETE", "SUCCESS", "FAIL"}

\* a read event: the TLS outcome is used in Connected only, the
\* authenticator's answer in ResponseSent only
AuthEvents ==
    {[kind |-> "read_error"]}
    \cup {[kind |-> "none", ssl_handshake |-> o] : o \in SslOutcomes}
    \cup {[kind |-> "packet", pkt |-> pkt, auth |-> "SUCCESS", ssl_handshake |-> o] :
             pkt \in AuthPackets, o \in SslOutcomes}
    \cup {[kind |-> "packet", pkt |-> pkt, auth |-> a, ssl_handshake |-> "ESTABLISHED"] :
             pkt \in AuthPackets, a \in AuthResults}

InitAuth ==
    /\ Holds(InitSelf)
    /\ \E ssl \in BOOLEAN, pool \in BOOLEAN :
          dcb = [PlainDcb EXCEPT !.ssl_context = ssl, !.persistent_conns_enabled = pool]
    /\ h_event = NoEvent
    /\ h_accepted = <<>>
    /\ InitHistory
    /\ InitNet

\* the queues are bounded
QueuesInBounds ==
    /\ Len(delayq) < MaxQueued
    /\ Len(m_stored_query) < MaxQueued
    /\ Len(writeq) < MaxWriteq

\* auth is the answer of the authenticator, "NONE" if it was not asked
EventOf(op, queue, rc, auth) ==
    [op |-> op, queue |-> queue, rc |-> rc, auth |-> auth, pre_auth |-> m_auth_state,
     pre_writeq |-> writeq, pre_delayq |-> delayq, pre_stored |-> m_stored_query]

Event(op, queue, rc) == EventOf(op, queue, rc, "NONE")

\* the router writes a client buffer to the backend
Write(queue) ==
    /\ QueuesInBounds
    /\ \E r \in {write(Self, dcb, queue)} :
          /\ Commit(r.s)
          /\ dcb' = r.dcb
          /\ h_event' = Event("write", queue, r.rc)
    /\ h_accepted' = IF m_auth_state \in {"CONNECTED", "RESPONSE_SENT"}
                     THEN h_accepted \o queue ELSE h_accepted
    /\ UNCHANGED <<netvars, srv, h_req, h_last>>

\* ping(), on a connection in use
Ping ==
    /\ QueuesInBounds
    /\ m_auth_state = "COMPLETE"
    /\ \E r \in {ping(Self, dcb)} :
          /\ Commit(r.s)
          /\ dcb' = r.dcb
    /\ h_event' = Event("ping", modutil_create_ignorable_ping, 0)
    /\ UNCHANGED <<h_accepted, netvars, srv, h_req, h_last>>

\* a read event before authentication is complete
ReadyForReading(ev) ==
    /\ m_auth_state # "COMPLETE"
    /\ Len(writeq) < MaxWriteq
    /\ (ev.kind = "packet" /\ is_error_response(<<ev.pkt>>)) => dcb.main_worker < MaxTasks
    /\ \E r \in {ready_for_reading(Self, dcb, ev)} :
          /\ Commit(r.s)
          /\ dcb' = r.dcb
    /\ h_event' = IF ev.kind = "packet"
                   THEN EventOf("ready_for_reading", <<ev.pkt>>, 0,
                                IF /\ m_auth_state = "RESPONSE_SENT"
                                   /\ ~is_error_response(<<ev.pkt>>)
                                THEN ev.auth ELSE "NONE")
                   ELSE Event("ready_for_reading", <<>>, 0)
    /\ UNCHANGED <<h_accepted, netvars, srv, h_req, h_last>>

\* the TLS handshake the DCB started ends
SslHandshake(outcome) ==
    /\ dcb.ssl_state = "HANDSHAKE_REQUIRED"
    /\ dcb' = [dcb EXCEPT !.ssl_state = outcome]
    /\ h_event' = NoEvent
    /\ UNCHANGED <<progvars, h_accepted, netvars, srv, h_req, h_last>>

\* the session starts to close
StopSession ==
    /\ dcb.session_state = "STARTED"
    /\ dcb' = [dcb EXCEPT !.session_state = "STOPPING"]
    /\ h_event' = NoEvent
    /\ UNCHANGED <<progvars, h_accepted, netvars, srv, h_req, h_last>>

NextAuth ==
    \/ \E queue \in AuthClientBuffers : Write(queue)
    \/ Ping
    \/ \E ev \in AuthEvents : ReadyForReading(ev)
    \/ \E outcome \in {"ESTABLISHED", "HANDSHAKE_FAILED"} : SslHandshake(outcome)
    \/ StopSession

SpecAuth == InitAuth /\ [][NextAuth]_vars

(* ---------------------------------------------------------------------- *)
(* Properties of write() and the delay queue (SpecAuth)                    *)
(* ---------------------------------------------------------------------- *)
\* C8: after write() of a client buffer: the write queue has changed only if
\* the auth state was Complete; in Fail or FailHandshake the buffer is in no
\* queue and write returned 0; in Connected or ResponseSent the buffer is at
\* the end of the delay queue and the write queue is unchanged.
C8_WriteByAuthState ==
    h_event.op = "write" =>
        /\ writeq # h_event.pre_writeq => h_event.pre_auth = "COMPLETE"
        /\ h_event.pre_auth \in {"FAIL", "FAIL_HANDSHAKE"} =>
              /\ h_event.rc = 0
              /\ writeq = h_event.pre_writeq
              /\ delayq = h_event.pre_delayq
              /\ m_stored_query = h_event.pre_stored
        /\ h_event.pre_auth \in {"CONNECTED", "RESPONSE_SENT"} =>
              /\ delayq = h_event.pre_delayq \o h_event.queue
              /\ writeq = h_event.pre_writeq

\* a second buffer written after the handshake response went to the delay queue
C8_Witness ==
    /\ h_event.op = "write"
    /\ h_event.pre_auth = "RESPONSE_SENT"
    /\ h_event.rc = 1
    /\ Len(delayq) = 2
    /\ delayq[2] = h_event.queue[1]
    /\ writeq = h_event.pre_writeq

\* the read event that has just completed the authentication
JustCompleted ==
    /\ h_event.op = "ready_for_reading"
    /\ h_event.pre_auth # "COMPLETE"
    /\ m_auth_state = "COMPLETE"

IsAuthResponse(pkt) ==
    pkt \in {gw_generate_auth_response(Self, a, b, dcb.capabilities)[1] :
                a \in BOOLEAN, b \in BOOLEAN}

Flushed(q) ==
    IF q = <<>> THEN <<>>
    ELSE IF q[1].data[1] = MXS_COM_CHANGE_USER THEN gw_create_change_user_packet(Self)
    ELSE IF q[1].data[1] = MXS_COM_QUIT /\ dcb.persistent_conns_enabled THEN <<>>
    ELSE q

C10_ErrWhileConnected ==
    (/\ h_event.op = "ready_for_reading"
     /\ h_event.pre_auth = "CONNECTED"
     /\ h_event.queue # <<>>
     /\ is_error_response(h_event.queue))
    => m_auth_state = "FAIL_HANDSHAKE"

\* C11: the auth state becomes Complete only in a read event that finds the
\* state ResponseSent and a packet that is not an ERR and that the
\* authenticator accepts; a read event that finds an ERR packet in
\* ResponseSent leaves the state Fail.
C11_CompleteFromResponseSent ==
    [][/\ (m_auth_state # "COMPLETE" /\ m_auth_state' = "COMPLETE") =>
             /\ m_auth_state = "RESPONSE_SENT"
             /\ h_event'.op = "ready_for_reading"
             /\ h_event'.queue # <<>>
             /\ ~is_error_response(h_event'.queue)
             /\ h_event'.auth = "SUCCESS"
       /\ (/\ m_auth_state = "RESPONSE_SENT"
           /\ h_event'.op = "ready_for_reading"
           /\ h_event'.queue # <<>>
           /\ is_error_response(h_event'.queue)) => m_auth_state' = "FAIL"]_vars

\* an OK packet that the authenticator accepted has completed the authentication
C11_Witness ==
    /\ JustCompleted
    /\ h_event.pre_auth = "RESPONSE_SENT"
    /\ h_event.queue = <<OkPacket(0, 0)>>
    /\ h_event.auth = "SUCCESS"

(* ---------------------------------------------------------------------- *)
(* The life of a connection: authentication, use, pool and reuse (SpecConn)*)
(*                                                                         *)
(* The socket is writable: the write queue is drained before the next      *)
(* event, so that writeq holds what the last event has written.            *)
(* ---------------------------------------------------------------------- *)

\* session is the MYSQL_session of the session that takes the connection out
\* of the pool; its upstream component has received nothing yet
\* mutant: the state of the DCB and of the authentication are not tested
reuse_connection_unchecked(s, d, session, appended) ==
    LET s1 == [s EXCEPT !.m_client_data = session, !.m_upstream = <<>>,
                        !.m_ignore_replies = 0, !.m_stored_query = <<>>]
    IN IF appended
       THEN [s |-> [s1 EXCEPT !.writeq = @ \o gw_create_change_user_packet(s1),
                              !.m_ignore_replies = @ + 1],
             dcb |-> d, rv |-> TRUE]
       ELSE [s |-> [s1 EXCEPT !.m_client_data = s.m_client_data,
                              !.m_upstream = s.m_upstream],
             dcb |-> d, rv |-> FALSE]

\* appended is what dcb->writeq_append returns; if it fails the session and
\* the upstream component of before are assigned again
reuse_connection(s, d, session, appended) ==
    IF d.state # "POLLING" \/ s.m_auth_state # "COMPLETE"
    THEN [s |-> s, dcb |-> d, rv |-> FALSE]
    ELSE LET s1 == [s EXCEPT !.m_client_data = session, !.m_upstream = <<>>,
                             !.m_ignore_replies = 0, !.m_stored_query = <<>>]
         IN IF appended
            THEN [s |-> [s1 EXCEPT !.writeq = @ \o gw_create_change_user_packet(s1),
                                   !.m_ignore_replies = @ + 1],
                  dcb |-> d, rv |-> TRUE]
            ELSE [s |-> [s1 EXCEPT !.m_client_data = s.m_client_data,
                                   !.m_upstream = s.m_upstream],
                  dcb |-> d, rv |-> FALSE]

\* established(): the DCB may go to the pool of its server
established(s) ==
    s.m_auth_state = "COMPLETE" /\ s.m_ignore_replies = 0 /\ s.m_stored_query = <<>>

\* hangup(): the error is handled if the session is started
hangup(d) == IF d.session_state # "STARTED" THEN d ELSE do_handle_error(d)

\* error(): the error is handled if the DCB is polling and the session started
error(d) ==
    IF d.state # "POLLING" \/ d.session_state # "STARTED" THEN d ELSE do_handle_error(d)

\* write_ready(): the write queue is drained to the socket
write_ready(s, d) == IF d.state # "POLLING" THEN s ELSE [s EXCEPT !.writeq = <<>>]

\* AuthSwitchRequest: 0xFE, the plugin name, and a scramble of twenty bytes b
AuthSwitchRequest(plugin, b) ==
    LET payload == <<MYSQL_REPLY_AUTHSWITCHREQUEST>> \o plugin \o <<0>> \o Bytes20(b) \o <<0>>
    IN [len |-> Len(payload), seq |-> 1, data |-> payload]

\* the same with the scramble given byte by byte
AuthSwitchWith(plugin, scramble) ==
    [AuthSwitchRequest(plugin, 0) EXCEPT
        !.data = <<MYSQL_REPLY_AUTHSWITCHREQUEST>> \o plugin \o <<0>> \o scramble \o <<0>>]

\* "sha256_password"
OtherPlugin == <<115, 104, 97, 50, 53, 54, 95, 112, 97, 115, 115, 119, 111, 114, 100>>

\* what an authenticated backend sends
ConnPackets ==
    {OkPacket(0, 0), ErrPacket(1045), ErrPacket(ER_HOST_IS_BLOCKED),
     AuthSwitchRequest(DEFAULT_MYSQL_AUTH_PLUGIN, 9), AuthSwitchRequest(OtherPlugin, 9),
     EofPacket(0, 0)}

\* a read on an authenticated connection: it fails, or returns one packet or two
ConnReads ==
    {[rc |-> -1, pkts |-> <<>>]}
    \cup {[rc |-> 1, pkts |-> <<pkt>>] : pkt \in ConnPackets}
    \cup {[rc |-> 1, pkts |-> <<EofPacket(0, 0), OkPacket(0, 0)>>],
          [rc |-> 1, pkts |-> <<OkPacket(0, 0), ErrPacket(ER_HOST_IS_BLOCKED)>>]}

\* the sessions that use the connection
Sessions == {ClientData(118, 2), ClientData(119, 0)}

\* the handshake before authentication: without TLS
ConnAuthEvents ==
    {[kind |-> "read_error"]}
    \cup {[kind |-> "packet", pkt |-> pkt, auth |-> a, ssl_handshake |-> "ESTABLISHED"] :
             pkt \in {ServerHandshake(10), OkPacket(0, 0), ErrPacket(1045),
                      ErrPacket(ER_HOST_IS_BLOCKED)},
             a \in {"SUCCESS", "FAIL"}}

\* the scrambles the backend has sent: in its handshake, and in the last
\* AuthSwitchRequest that was answered; reuse tells that the backend has not
\* given its final reply to the COM_CHANGE_USER of reuse_connection
NoScrambles == [handshake |-> Bytes20(0), last |-> Bytes20(0), reuse |-> FALSE]

InitConn ==
    /\ Holds(InitSelf)
    /\ dcb = [PlainDcb EXCEPT !.persistent_conns_enabled = TRUE]
    /\ h_event = NoEvent
    /\ h_accepted = <<>>
    /\ h_last = NoHistory
    /\ h_req = NoRequest
    /\ srv = NoScrambles
    /\ InitNet

\* the packet that a read event has found: the last one of those it has read
Found(queue) == <<queue[Len(queue)]>>

\* an AuthSwitchRequest that names the default plugin
NativeSwitch(reply) ==
    /\ auth_change_requested(reply)
    /\ CStr(reply[1].data, 2) = DEFAULT_MYSQL_AUTH_PLUGIN

\* the scramble of an AuthSwitchRequest: the twenty bytes behind the name of
\* the plugin
NewScramble(reply) ==
    LET at == Len(DEFAULT_MYSQL_AUTH_PLUGIN) + 3
    IN SubSeq(reply[1].data, at, at + GW_MYSQL_SCRAMBLE_SIZE - 1)

\* the connection answers the AuthSwitchRequest it has read
Answered(pkts) ==
    /\ pkts # <<>>
    /\ m_changing_user \/ m_ignore_replies > 0
    /\ NativeSwitch(Found(pkts))

\* the DCB has not been closed
Open == ~dcb.handle_error /\ ~dcb.hangup_event

\* the members when an event arrives: the upstream component has taken the
\* replies that the event before has handed to it
Idle == [Self EXCEPT !.m_upstream = <<>>]

ConnEvent(op, queue, rc) ==
    [op |-> op, queue |-> queue, rc |-> rc, auth |-> "NONE", pre_auth |-> m_auth_state]

\* the router writes a client buffer to the backend
ConnWrite(queue) ==
    /\ Open
    /\ writeq = <<>>
    /\ Len(delayq) < MaxDelayed
    /\ Len(m_stored_query) < MaxQueued
    /\ \E r \in {write(Idle, dcb, queue)} :
          /\ Commit(r.s)
          /\ dcb' = r.dcb
          /\ h_event' = ConnEvent("write", queue, r.rc)
    /\ UNCHANGED <<h_accepted, netvars, srv, h_req, h_last>>

\* a read event before the authentication is complete
ConnAuthenticate(ev) ==
    /\ m_auth_state # "COMPLETE"
    /\ writeq = <<>>
    /\ (ev.kind = "packet" /\ is_error_response(<<ev.pkt>>)) => dcb.main_worker < MaxTasks
    /\ \E r \in {ready_for_reading(Idle, dcb, ev)} :
          /\ Commit(r.s)
          /\ dcb' = r.dcb
          /\ srv' = IF r.s.m_scramble # m_scramble
                    THEN [srv EXCEPT !.handshake = r.s.m_scramble, !.last = r.s.m_scramble]
                    ELSE srv
    /\ h_event' = ConnEvent("ready_for_reading",
                            IF ev.kind = "packet" THEN <<ev.pkt>> ELSE <<>>, 0)
    /\ UNCHANGED <<h_accepted, netvars, h_req, h_last>>

\* a read event on an authenticated connection
ConnRead(ev) ==
    /\ Open
    /\ writeq = <<>>
    /\ m_auth_state = "COMPLETE"
    /\ dcb.main_worker < MaxTasks
    /\ \E r \in {ready_for_reading(Idle, dcb, ev)} :
          /\ InBounds(r.s)
          /\ Commit(r.s)
          /\ dcb' = r.dcb
          /\ srv' = [srv EXCEPT !.last = IF Answered(ev.pkts)
                                               THEN NewScramble(Found(ev.pkts)) ELSE @,
                                !.reuse = @ /\ (ev.pkts = <<>> \/ Answered(ev.pkts))]
    /\ h_event' = ConnEvent("ready_for_reading", ev.pkts, ev.rc)
    /\ UNCHANGED <<h_accepted, netvars, h_req, h_last>>

\* ping(), on a connection in use
ConnPing ==
    /\ Open
    /\ writeq = <<>>
    /\ m_auth_state = "COMPLETE"
    /\ Len(m_stored_query) < MaxQueued
    /\ \E r \in {ping(Idle, dcb)} :
          /\ Commit(r.s)
          /\ dcb' = r.dcb
    /\ h_event' = ConnEvent("ping", modutil_create_ignorable_ping, 0)
    /\ UNCHANGED <<h_accepted, netvars, srv, h_req, h_last>>

\* hangup and error events
Hangup ==
    /\ Open
    /\ Commit(Idle)
    /\ dcb' = hangup(dcb)
    /\ h_event' = ConnEvent("hangup", <<>>, 0)
    /\ UNCHANGED <<h_accepted, netvars, srv, h_req, h_last>>

Error ==
    /\ Open
    /\ Commit(Idle)
    /\ dcb' = error(dcb)
    /\ h_event' = ConnEvent("error", <<>>, 0)
    /\ UNCHANGED <<h_accepted, netvars, srv, h_req, h_last>>

\* the socket is writable
WriteReady ==
    /\ writeq # <<>>
    /\ Commit(write_ready(Idle, dcb))
    /\ h_event' = ConnEvent("write_ready", <<>>, 0)
    /\ UNCHANGED <<dcb, h_accepted, netvars, srv, h_req, h_last>>

\* the session ends and the DCB goes to the pool of its server, which takes
\* an established connection; another session takes it from there
Reuse(session) ==
    /\ Open
    /\ dcb.persistent_conns_enabled
    /\ established(Self)
    /\ writeq = <<>>
    /\ delayq = <<>>
    /\ \E r \in {reuse_connection(Idle, [dcb EXCEPT !.session_state = "STARTED"],
                                      session, TRUE)} :
          /\ Commit(r.s)
          /\ dcb' = r.dcb
          /\ h_event' = ConnEvent("reuse_connection", <<>>, IF r.rv THEN 1 ELSE 0)
          /\ srv' = [srv EXCEPT !.reuse = r.rv]
    /\ UNCHANGED <<h_accepted, netvars, h_req, h_last>>

NextConn ==
    \/ \E queue \in AuthClientBuffers : ConnWrite(queue)
    \/ \E ev \in ConnAuthEvents : ConnAuthenticate(ev)
    \/ \E ev \in ConnReads : ConnRead(ev)
    \/ ConnPing
    \/ Hangup
    \/ Error
    \/ WriteReady
    \/ \E session \in Sessions : Reuse(session)

SpecConn == InitConn /\ [][NextConn]_vars

\* C12: no step changes an auth state that is Complete, Fail or FailHandshake.
C12_TerminalAuthStates ==
    [][(m_auth_state \in {"COMPLETE", "FAIL", "FAIL_HANDSHAKE"}) =>
          (m_auth_state' = m_auth_state)]_vars

\* a read event has delivered a packet upstream on a connection whose
\* authentication was complete, and the authentication is still complete
C12_Witness ==
    /\ h_event.op = "ready_for_reading"
    /\ h_event.queue # <<>>
    /\ h_event.pre_auth = "COMPLETE"
    /\ m_auth_state = "COMPLETE"
    /\ m_upstream # <<>>

\* C13: an ERR with code 1129 that arrives during the authentication, or as
\* the reply to the COM_CHANGE_USER of a reuse, posts exactly one task to the
\* main worker, and the connection does not try again: it writes nothing, and
\* the authentication has failed or the hangup event is triggered. An ERR with
\* another code posts no task.
C13_HostBlocked ==
    [][(/\ h_event'.op = "ready_for_reading"
        /\ h_event'.queue # <<>>
        /\ is_error_response(Found(h_event'.queue))
        /\ m_auth_state \in {"CONNECTED", "RESPONSE_SENT"} \/ srv.reuse) =>
          /\ dcb'.main_worker = dcb.main_worker
                + (IF U16(Found(h_event'.queue)[1].data, 2) = ER_HOST_IS_BLOCKED THEN 1 ELSE 0)
          /\ writeq' = writeq
          /\ IF m_auth_state = "COMPLETE"
             THEN dcb'.hangup_event /\ m_stored_query' = <<>> /\ ~srv'.reuse
             ELSE m_auth_state' = "FAIL" /\ dcb'.handle_error]_vars

\* the backend has answered the COM_CHANGE_USER of a reuse with ERR 1129
C13_Witness ==
    /\ h_event.op = "ready_for_reading"
    /\ h_event.pre_auth = "COMPLETE"
    /\ h_event.queue = <<ErrPacket(ER_HOST_IS_BLOCKED)>>
    /\ m_client_data \in Sessions
    /\ dcb.hangup_event
    /\ dcb.main_worker = 1

\* C14: while the reply to the COM_CHANGE_USER of a reuse is awaited, a client
\* write is appended to the stored query and nothing is written to the
\* backend.
C14_AllWritesHeld ==
    [][(h_event'.op = "write" /\ srv.reuse) =>
          /\ m_stored_query' = m_stored_query \o h_event'.queue
          /\ writeq' = writeq]_vars

\* C14, amended: the same for a client write that is not a COM_QUIT; a
\* COM_QUIT is freed, the hangup event is triggered, and nothing is stored or
\* written.
C14_WritesHeld ==
    [][(h_event'.op = "write" /\ srv.reuse) =>
          /\ m_ignore_replies > 0
          /\ writeq' = writeq
          /\ m_ignore_replies' = m_ignore_replies
          /\ IF h_event'.queue[1].data[1] = MXS_COM_QUIT
             THEN m_stored_query' = m_stored_query /\ dcb'.hangup_event /\ h_event'.rc = 0
             ELSE /\ m_stored_query' = m_stored_query \o h_event'.queue
                  /\ dcb' = dcb
                  /\ h_event'.rc = 1]_vars

\* a second client write has been stored behind the first
C14_Witness ==
    /\ h_event.op = "write"
    /\ srv.reuse
    /\ Len(m_stored_query) = 2
    /\ m_stored_query[1].data[1] = MXS_COM_QUERY
    /\ m_stored_query[2].data[1] = MXS_COM_CHANGE_USER
    /\ h_event.queue = <<m_stored_query[2]>>
    /\ writeq = <<>>

SwitchAnswer(reply, seq) ==
    LET scramble == NewScramble(reply)
        passwd == IF m_client_data.auth_token_phase2 = <<>>
                  THEN Bytes20(0) ELSE m_client_data.auth_token_phase2
    IN [len |-> GW_MYSQL_SCRAMBLE_SIZE, seq |-> seq,
        data |-> mxs_mysql_calculate_hash(scramble, passwd)]

\* a read finds an AuthSwitchRequest to mysql_native_password while the reply
\* to a COM_CHANGE_USER is awaited: that of a reuse, or that of the client
SwitchRequested ==
    /\ h_event'.op = "ready_for_reading"
    /\ h_event'.queue # <<>>
    /\ srv.reuse \/ m_changing_user
    /\ NativeSwitch(Found(h_event'.queue))

\* C16: the scramble of the request becomes the scramble of the connection,
\* and exactly one packet is sent: twenty bytes, the scrambled password, with
\* sequence number 3.
C16_AnswerSeq3 ==
    [][SwitchRequested =>
          /\ m_scramble' = NewScramble(Found(h_event'.queue))
          /\ writeq' = Append(writeq, SwitchAnswer(Found(h_event'.queue), 3))]_vars

\* C16, amended: the same with sequence number 2.
C16_AnswerSeq2 ==
    [][SwitchRequested =>
          /\ m_scramble' = NewScramble(Found(h_event'.queue))
          /\ writeq' = Append(writeq, SwitchAnswer(Found(h_event'.queue), 2))]_vars

\* the answer to the AuthSwitchRequest of a reuse is in the write queue
C16_Witness ==
    /\ h_event.op = "ready_for_reading"
    /\ h_event.queue = <<AuthSwitchRequest(DEFAULT_MYSQL_AUTH_PLUGIN, 9)>>
    /\ srv.reuse
    /\ m_scramble = Bytes20(9)
    /\ Len(writeq) = 1
    /\ writeq[1].len = GW_MYSQL_SCRAMBLE_SIZE
    /\ Len(writeq[1].data) = GW_MYSQL_SCRAMBLE_SIZE
    /\ writeq[1].seq = 2

\* C17: when the reply to the COM_CHANGE_USER of a reuse is neither OK nor
\* an AuthSwitchRequest to mysql_native_password, the hangup event is
\* triggered, the stored query is dropped and nothing is written.
C17_ReuseRefused ==
    [][(/\ h_event'.op = "ready_for_reading"
        /\ h_event'.queue # <<>>
        /\ srv.reuse
        /\ Found(h_event'.queue)[1].data[1] # MYSQL_REPLY_OK
        /\ ~NativeSwitch(Found(h_event'.queue))) =>
          /\ dcb'.hangup_event
          /\ m_stored_query' = <<>>
          /\ writeq' = writeq
          /\ ~srv'.reuse]_vars

\* the backend has asked for another plugin in its reply to the COM_CHANGE_USER
\* of a reuse
C17_Witness ==
    /\ h_event.op = "ready_for_reading"
    /\ h_event.queue = <<AuthSwitchRequest(OtherPlugin, 9)>>
    /\ m_client_data \in Sessions
    /\ dcb.hangup_event
    /\ m_stored_query = <<>>
    /\ writeq = <<>>
    /\ m_scramble # Bytes20(9)


\* the COM_CHANGE_USER that reuse_connection has appended to the write queue
\* holds the name of the new session and, when the session has a password,
\* the password scrambled with scramble
ChangeUserSent(scramble) ==
    LET pkt == writeq'[Len(writeq')]
        user == m_client_data'.user
        n == Len(user)
        token == m_client_data'.auth_token_phase2
    IN /\ Len(writeq') = Len(writeq) + 1
       /\ m_client_data' \in Sessions
       /\ pkt.seq = 0
       /\ pkt.data[1] = MXS_COM_CHANGE_USER
       /\ SubSeq(pkt.data, 2, n + 1) = user
       /\ pkt.data[n + 2] = 0
       /\ IF token = <<>>
          THEN pkt.data[n + 3] = 0
          ELSE /\ pkt.data[n + 3] = GW_MYSQL_SCRAMBLE_SIZE
               /\ SubSeq(pkt.data, n + 4, n + 3 + GW_MYSQL_SCRAMBLE_SIZE)
                     = mxs_mysql_calculate_hash(scramble, token)

\* C18: every reuse sends a COM_CHANGE_USER built from the new session and
\* scrambled with the scramble of the backend's handshake.
C18_HandshakeScramble ==
    [][(h_event'.op = "reuse_connection" /\ h_event'.rc = 1) =>
          ChangeUserSent(srv.handshake)]_vars

\* C18, amended: the scramble is that of the last AuthSwitchRequest the
\* connection has answered, and that of the handshake when there was none.
C18_CurrentScramble ==
    [][(h_event'.op = "reuse_connection" /\ h_event'.rc = 1) =>
          ChangeUserSent(srv.last)]_vars

\* a session with a password has taken a connection that had answered an
\* AuthSwitchRequest
C18_Witness ==
    /\ h_event.op = "reuse_connection"
    /\ h_event.rc = 1
    /\ srv.handshake = Bytes20(7)
    /\ srv.last = Bytes20(9)
    /\ m_client_data = ClientData(118, 2)
    /\ Len(writeq) = 1
    /\ writeq[1].data[1] = MXS_COM_CHANGE_USER

\* C19: when the reply to a COM_CHANGE_USER of the client is awaited, the
\* response that a read hands to the upstream component has sequence number 3.
C19_FinalResponseSeq3 ==
    [][(/\ h_event'.op = "ready_for_reading"
        /\ m_auth_state = "COMPLETE"
        /\ m_reply.command = MXS_COM_CHANGE_USER
        /\ m_reply.state # "DONE"
        /\ m_upstream' # <<>>) =>
          m_upstream'[Len(m_upstream')].stmt[1].seq = 3]_vars

(* ---------------------------------------------------------------------- *)
(* The order of the replies (SpecOrder)                                    *)
(*                                                                         *)
(* An authenticated connection and a backend that answers the commands in  *)
(* the order in which it receives them. Every packet of the answer to the  *)
(* n-th command written to the backend carries the number n in the field   *)
(* of, which the connection does not read. h_accepted holds the commands   *)
(* written to the backend, stream the packets the backend has sent and the *)
(* connection has not read, h_emitted the numbers of the packets handed to *)
(* the upstream component.                                                 *)
(* ---------------------------------------------------------------------- *)
MaxCmds == 3
MaxRead == 3

Of(pkt, n) == [len |-> pkt.len, seq |-> pkt.seq, data |-> pkt.data, of |-> n]

\* the answer to the n-th command: OK, or a result set of one column and one row
Answer(form, n) ==
    IF form = "ok" THEN <<Of(OkPacket(0, 0), n)>>
    ELSE <<Of(FieldCountPacket(1), n), Of(DataPacket, n), Of(EofPacket(0, 0), n),
           Of(DataPacket, n), Of(EofPacket(0, 0), n)>>

\* the answers to the commands that a step has appended to the write queue,
\* the first of them being the n-th command
RECURSIVE Answers(_, _, _)
Answers(form, written, n) ==
    IF written = <<>> THEN <<>>
    ELSE Answer(form, n) \o Answers(form, Tail(written), n + 1)

\* the numbers of the packets of a buffer
Numbers(buffer) == [i \in 1..Len(buffer) |-> buffer[i].of]

\* the client's commands: a query, with or without the request to collect
\* its result
OrderBuffers ==
    {<<ClientPacket(MXS_COM_QUERY, <<83>>)>>,
     <<[len |-> 2, data |-> <<MXS_COM_QUERY, 83>>, type |-> "COLLECT_RESULT"]>>}

InitOrder ==
    /\ Holds(Authenticated)
    /\ dcb = PlainDcb
    /\ h_event = NoEvent
    /\ h_accepted = <<>>
    /\ h_emitted = <<>>
    /\ stream = <<>>
    /\ readq = <<>>
    /\ h_stream = <<>>
    /\ h_cmd = EmptyPacket
    /\ h_last = NoHistory
    /\ h_req = NoRequest
    /\ srv = NoScrambles

\* what a handler leaves, seen from the backend and from the upstream
\* component: r is the result of the handler, form the answer of the backend
Exchange(r, form) ==
    LET written == SubSeq(r.s.writeq, Len(writeq) + 1, Len(r.s.writeq))
    IN /\ Commit(r.s)
       /\ dcb' = r.dcb
       /\ h_accepted' = h_accepted \o [i \in 1..Len(written) |-> written[i].data[1]]
       /\ h_emitted' = h_emitted \o
                         (IF r.s.m_upstream = <<>> THEN <<>>
                          ELSE Numbers(r.s.m_upstream[1].stmt))
       /\ UNCHANGED <<readq, h_stream, h_cmd, srv, h_req, h_last>>

OrderWrite(queue, form) ==
    /\ Open
    /\ writeq = <<>>
    /\ Len(h_accepted) + Len(m_stored_query) < MaxCmds
    /\ \E r \in {write(Idle, dcb, queue)} :
          /\ Exchange(r, form)
          /\ stream' = stream \o Answers(form, r.s.writeq, Len(h_accepted) + 1)
          /\ h_event' = ConnEvent("write", queue, r.rc)

OrderPing(form) ==
    /\ Open
    /\ writeq = <<>>
    /\ m_reply.state = "DONE"
    /\ Len(h_accepted) + Len(m_stored_query) < MaxCmds
    /\ \E r \in {write(Idle, dcb, modutil_create_ignorable_ping)} :
          /\ Exchange(r, form)
          /\ stream' = stream \o Answers(form, r.s.writeq, Len(h_accepted) + 1)
          /\ h_event' = ConnEvent("ping", modutil_create_ignorable_ping, r.rc)

\* a read finds the first n packets that the backend has sent
OrderRead(n, form) ==
    /\ Open
    /\ writeq = <<>>
    /\ n <= Len(stream)
    /\ LET pkts == SubSeq(stream, 1, n)
           ev == [rc |-> 1, pkts |-> pkts]
           r == gw_read_and_write(Idle, dcb, ev)
       IN /\ Exchange(r, form)
          /\ stream' = SubSeq(stream, n + 1, Len(stream))
                          \o Answers(form, r.s.writeq, Len(h_accepted) + 1)
          /\ h_event' = ConnEvent("ready_for_reading", pkts, 1)

NextOrder ==
    \/ \E queue \in OrderBuffers, form \in {"ok", "rows"} : OrderWrite(queue, form)
    \/ \E form \in {"ok", "rows"} : OrderPing(form)
    \/ \E n \in 1..MaxRead, form \in {"ok", "rows"} : OrderRead(n, form)
    \/ WriteReady

SpecOrder == InitOrder /\ [][NextOrder]_vars

\* C20: the packets handed to the upstream component are in the order of the
\* commands they answer: no packet of the answer to a command is handed over
\* after a packet of the answer to a later command, and none before its
\* command is written.
C20_RepliesInOrder ==
    /\ \A i \in 1..Len(h_emitted) : h_emitted[i] \in 1..Len(h_accepted)
    /\ \A i \in 1..Len(h_emitted) - 1 : h_emitted[i] <= h_emitted[i + 1]

\* the answer to the first command and then the collected result of the
\* third have been handed over, the answer to the ping between them has not
C20_Witness ==
    /\ Len(h_accepted) = MaxCmds
    /\ h_accepted[2] = MXS_COM_PING
    /\ \E i \in 1..Len(h_emitted) - 1 : h_emitted[i] = 1 /\ h_emitted[i + 1] = 3
    /\ m_upstream # <<>>
    /\ m_upstream[1].result
    /\ m_upstream[1].complete
    /\ Len(m_upstream[1].stmt) > 1
    /\ stream = <<>>

(* ---------------------------------------------------------------------- *)
(* The read queue and the triggered read event (SpecRearm)                 *)
(* ---------------------------------------------------------------------- *)
\* mutant: what is left in the read queue waits for the next bytes of the
\* network
gw_read_and_write_readq_unarmed(s, d, read_buffer) ==
    IF BufLen(read_buffer) = 0
    THEN [s |-> s, dcb |-> d, readq |-> <<>>, packets |-> <<>>]
    ELSE LET r == process_packets(s, read_buffer)
         IN IF r.packets = <<>>
            THEN [s |-> r.s, dcb |-> d, readq |-> r.rest, packets |-> <<>>]
            ELSE LET routed == route_reply(r.s, d, r.packets, FALSE)
                 IN [s |-> routed.s, dcb |-> routed.dcb, readq |-> r.rest,
                     packets |-> r.packets]

\* gw_read_and_write on the bytes read_buffer that dcb->read returns, the read
\* queue followed by what the socket holds: track_response splits off the
\* complete packets, the rest is stored in the read queue, a read event is
\* triggered if the reply is complete, and the complete packets are routed
gw_read_and_write_readq(s, d, read_buffer) ==
    IF BufLen(read_buffer) = 0
    THEN [s |-> s, dcb |-> d, readq |-> <<>>, packets |-> <<>>]
    ELSE LET r == process_packets(s, read_buffer)
             d1 == IF r.rest # <<>> /\ Reply_is_complete(r.s.m_reply)
                   THEN [d EXCEPT !.triggered_read_event = TRUE]
                   ELSE d
         IN IF r.packets = <<>>
            THEN [s |-> r.s, dcb |-> d1, readq |-> r.rest, packets |-> <<>>]
            ELSE LET routed == route_reply(r.s, d1, r.packets, FALSE)
                 IN [s |-> routed.s, dcb |-> routed.dcb, readq |-> r.rest,
                     packets |-> r.packets]

\* the handler has run on read_buffer with the DCB d
Handled(d, read_buffer) ==
    \E r \in {gw_read_and_write_readq(Idle, d, read_buffer)} :
       /\ Commit(r.s)
       /\ dcb' = r.dcb
       /\ readq' = r.readq
       /\ h_emitted' = Cat(h_emitted, r.packets)
       /\ h_last' = [op |-> "process_packets", pre_state |-> m_reply.state,
                     pre_skip |-> m_skip_next, after_tail |-> FALSE]
       /\ UNCHANGED <<h_stream, h_cmd, srv, h_req, h_accepted>>

\* the socket is readable: k more bytes have arrived
NetworkRead(k) ==
    /\ stream # <<>>
    /\ Handled(dcb, Cat(readq, BufTake(stream, k)))
    /\ stream' = BufDrop(stream, k)
    /\ h_event' = [op |-> "ready_for_reading", triggered |-> FALSE]

\* the worker delivers the read event that trigger_read_event has queued
TriggeredRead ==
    /\ dcb.triggered_read_event
    /\ Handled([dcb EXCEPT !.triggered_read_event = FALSE], readq)
    /\ stream' = stream
    /\ h_event' = [op |-> "ready_for_reading", triggered |-> TRUE]

NextRearm ==
    \/ \E k \in Cuts(stream) : NetworkRead(k)
    \/ TriggeredRead

\* the worker delivers every event it has queued
SpecRearm == InitFramer /\ [][NextRearm]_vars /\ WF_vars(TriggeredRead)

\* C21: whenever the handler leaves bytes in the read queue and the reply is
\* complete, it has triggered a read event; a triggered read event is
\* delivered without any new byte of the network; and no complete packet is
\* left waiting in the read queue.
C21_ReadRearmed ==
    /\ [][(readq' # <<>> /\ Reply_is_complete(m_reply')) => dcb'.triggered_read_event]_vars
    /\ [](dcb.triggered_read_event => <>(h_event.op = "ready_for_reading" /\ h_event.triggered))
    /\ [](readq # <<>> => Incomplete(readq))

\* the reply is complete, the start of a further packet waits in the read
\* queue, the read event has been triggered and delivered, and the rest of
\* the packet is still to come
C21_Witness ==
    /\ Reply_is_complete(m_reply)
    /\ readq # <<>>
    /\ h_emitted # <<>>
    /\ dcb.triggered_read_event
    /\ h_event.op = "ready_for_reading"
    /\ h_event.triggered
    /\ stream # <<>>

(* ---------------------------------------------------------------------- *)
(* C22 - C23 (SpecConn)                                                    *)
(* ---------------------------------------------------------------------- *)
\* C22: a ping() made while the reply is not done writes nothing and leaves
\* every member and the DCB as they were; whenever ping() appends to the write
\* queue the reply was done, and when it appends the ignorable COM_PING the
\* count of ignored replies goes up by one.
C22_PingOnlyWhenDone ==
    [][(h_event'.op = "ping") =>
          /\ (m_reply.state # "DONE") => (Idle' = Idle /\ dcb' = dcb)
          /\ (writeq' # writeq) => (m_reply.state = "DONE")
          /\ (writeq' = writeq \o modutil_create_ignorable_ping) =>
                 (m_reply.state = "DONE" /\ m_ignore_replies' = m_ignore_replies + 1)]_vars

\* a ping was made while the rows of a result were awaited: nothing is written
\* and no reply is ignored
C22_Witness ==
    /\ h_event.op = "ping"
    /\ m_auth_state = "COMPLETE"
    /\ m_reply.state \in {"START", "RSET_COLDEF", "RSET_COLDEF_EOF", "RSET_ROWS"}
    /\ writeq = <<>>
    /\ m_ignore_replies = 0

\* C23: when the connection is lost (hangup, socket error or failed read, the
\* error being handled) before the reply is done, the reply becomes done and
\* carries the error 2003 with SQLSTATE HY000.
C23_LostReplyDone ==
    [][(~dcb.handle_error /\ dcb'.handle_error /\ m_reply.state # "DONE") =>
          /\ m_reply'.state = "DONE"
          /\ m_reply'.error.code = 2003
          /\ m_reply'.error.sql_state = <<72, 89, 48, 48, 48>>]_vars

(* ---------------------------------------------------------------------- *)
(* C24 - C25 (SpecWF)                                                      *)
(* ---------------------------------------------------------------------- *)
\* C24: when the command submitted is COM_STMT_EXECUTE, the EOF that ends the
\* column definitions of its result set is classified in RSetColdefEof; if
\* the flag byte of the command was not zero the state becomes Done with no
\* row counted, and if it was zero the state becomes RSetRows.
C24_CursorEndsReply ==
    [][(/\ srv.phase = "coldef_eof"
        /\ srv.cmd = MXS_COM_STMT_EXECUTE
        /\ srv' # srv)
       => /\ m_reply.state = "RSET_COLDEF_EOF"
          /\ m_reply.command = MXS_COM_STMT_EXECUTE
          /\ IF srv.cursor
             THEN m_reply'.state = "DONE" /\ m_reply'.rows = 0 /\ srv'.phase = "idle"
             ELSE m_reply'.state = "RSET_ROWS"]_vars

\* the column definitions of a COM_STMT_EXECUTE that opens a cursor have
\* ended: the reply is Done and the server sends nothing more
C24_Witness ==
    /\ h_last.op = "process_packets"
    /\ h_last.pre_state = "RSET_COLDEF_EOF"
    /\ h_req.cmd = MXS_COM_STMT_EXECUTE
    /\ m_reply.command = MXS_COM_STMT_EXECUTE
    /\ m_reply.state = "DONE"
    /\ m_reply.field_counts # <<>>
    /\ ~m_opening_cursor
    /\ srv.phase = "idle"

\* the packets the server is still to send after the OK of a COM_STMT_PREPARE
PsLeft(sv) ==
    LET cols == IF sv.c > 0 THEN sv.c + 1 ELSE 0 IN
    CASE sv.phase = "ps_params" -> sv.n + 1 + cols
      [] sv.phase = "ps_params_eof" -> 1 + cols
      [] sv.phase = "ps_cols" -> sv.n + 1
      [] sv.phase = "ps_cols_eof" -> 1
      [] OTHER -> 0

\* C25: the OK to a COM_STMT_PREPARE that announces c columns and p parameters
\* puts the statement id and p into the Reply and leaves the state Prepare
\* with (c > 0 ? c + 1 : 0) + (p > 0 ? p + 1 : 0) packets to come, or Done if
\* that number is 0; from then on the state is Prepare exactly as long as the
\* server has packets of the reply left to send and Done when it has sent the
\* last, each packet counting one, and the statement id and the parameter
\* count stay what the OK said.
C25_PrepareCount ==
    /\ [][\A e \in ServerSteps(srv) :
             (srv.cmd = MXS_COM_STMT_PREPARE /\ e.kind = "ok" /\ Deliver(e)) =>
                 LET c == U16(e.pkt.data, 6)
                     p == U16(e.pkt.data, 8)
                     n == (IF c > 0 THEN c + 1 ELSE 0) + (IF p > 0 THEN p + 1 ELSE 0)
                 IN /\ m_reply'.state = IF n = 0 THEN "DONE" ELSE "PREPARE"
                    /\ m_reply'.generated_id = e.pkt.data[2]
                    /\ m_reply'.param_count = p
                    /\ PsLeft(srv') = n]_vars
    /\ [][(m_reply.state = "PREPARE") =>
             /\ m_reply'.generated_id = m_reply.generated_id
             /\ m_reply'.param_count = m_reply.param_count
             /\ PsLeft(srv') = PsLeft(srv) - 1]_vars
    /\ []((h_req.cmd = MXS_COM_STMT_PREPARE /\ m_reply.is_ok) =>
             /\ (PsLeft(srv) > 0) => m_reply.state = "PREPARE"
             /\ (PsLeft(srv) = 0) => m_reply.state = "DONE"
             /\ m_ps_packets = PsLeft(srv))

\* the OK announced one parameter; the packets that follow it have all
\* arrived, the last of them classified in Prepare, and the reply is Done
\* with the statement id and the parameter count of the OK
C25_Witness ==
    /\ h_req.cmd = MXS_COM_STMT_PREPARE
    /\ m_reply.is_ok
    /\ h_last.op = "process_packets"
    /\ h_last.pre_state = "PREPARE"
    /\ srv.phase = "idle"
    /\ m_reply.state = "DONE"
    /\ m_reply.generated_id = 7
    /\ m_reply.param_count = 1
    /\ m_ps_packets = 0

(* ---------------------------------------------------------------------- *)
(* Session state tracking (SpecTrack)                                      *)
(* ---------------------------------------------------------------------- *)
\* The client writes queries with and without GWBUF_TYPE_TRACK_STATE, to a
\* service with and without RCAP_TYPE_SESSION_STATE_TRACKING; the server
\* answers each with an OK that has SERVER_SESSION_STATE_CHANGED and a
\* tracking block of up to MaxEntries entries, each variable reported once.
MaxEntries == 2
MaxLongStr == 251

\* a length-encoded integer below 65536 and a length-encoded string
LenInt(n) == IF n < 251 THEN <<n>> ELSE <<252, n % 256, n \div 256>>
LenStr(str) == LenInt(Len(str)) \o str

\* an entry of the tracking block: type, total_size, body; pair is what it
\* tells about the variables of the session
TrackEntry(type, body, pair) ==
    [type |-> type, bytes |-> <<type>> \o LenInt(Len(body)) \o body, pair |-> pair]

\* autocommit=ON; a variable with a value of MaxLongStr bytes; schema db;
\* state change 1; GTID 0-1-5; characteristics RO; transaction state T_______;
\* and an entry of a type the code does not know, 3 bytes long
TrackEntries ==
    LET autocommit == <<97, 117, 116, 111, 99, 111, 109, 109, 105, 116>>
        long == [i \in 1..MaxLongStr |-> 120]
        gtid == <<48, 45, 49, 45, 53>>
        trx == <<84, 95, 95, 95, 95, 95, 95, 95>>
    IN {TrackEntry(SESSION_TRACK_SYSTEM_VARIABLES, LenStr(autocommit) \o LenStr(<<79, 78>>),
                   {<<autocommit, <<79, 78>>>>}),
        TrackEntry(SESSION_TRACK_SYSTEM_VARIABLES, LenStr(<<118>>) \o LenStr(long),
                   {<<<<118>>, long>>}),
        TrackEntry(SESSION_TRACK_SCHEMA, LenStr(<<100, 98>>), {}),
        TrackEntry(SESSION_TRACK_STATE_CHANGE, LenStr(<<49>>), {}),
        TrackEntry(SESSION_TRACK_GTIDS, <<0>> \o LenStr(gtid), {<<MXS_LAST_GTID, gtid>>}),
        TrackEntry(SESSION_TRACK_TRANSACTION_CHARACTERISTICS, LenStr(<<82, 79>>),
                   {<<TrxCharacteristics, <<82, 79>>>>}),
        TrackEntry(SESSION_TRACK_TRANSACTION_TYPE, LenStr(trx), {<<TrxState, trx>>}),
        TrackEntry(9, <<0, 1, 97>>, {})}

\* the tracking blocks: up to n different entries in any order
RECURSIVE TrackBlocks(_)
TrackBlocks(n) ==
    IF n = 0 THEN {<<>>}
    ELSE LET shorter == TrackBlocks(n - 1)
         IN shorter \cup {Append(b, e) : b \in {x \in shorter : Len(x) = n - 1},
                                         e \in TrackEntries}

Different(block) == \A i, j \in 1..Len(block) : block[i] = block[j] => i = j

RECURSIVE BlockBytes(_)
BlockBytes(block) ==
    IF block = <<>> THEN <<>> ELSE block[1].bytes \o BlockBytes(Tail(block))

\* OK: 0x00, affected rows, last insert id, status, warnings, info, the length
\* of the tracking block, the tracking block
TrackingOk(block) ==
    LET payload == <<MYSQL_REPLY_OK, 0, 0, SERVER_SESSION_STATE_CHANGED % 256,
                     SERVER_SESSION_STATE_CHANGED \div 256, 0, 0>>
                   \o LenStr(<<111, 107>>) \o LenInt(Len(BlockBytes(block)))
                   \o BlockBytes(block)
    IN [len |-> Len(payload), seq |-> 1, data |-> payload]

\* what the block tells about the variables of the session
Told(block) == UNION {block[i].pair : i \in 1..Len(block)}

InitTrack ==
    /\ Holds(Authenticated)
    /\ InitHistory
    /\ InitNet
    /\ \E capabilities \in {{}, {"SESSION_STATE_TRACKING"}} :
          dcb = [PlainDcb EXCEPT !.capabilities = @ \cup capabilities]
    /\ h_event = NoEvent
    /\ h_accepted = <<>>

\* the client writes a query when the reply to the last one has arrived; the
\* server will answer with an OK that carries block
TrackWrite(queue, block) ==
    /\ m_reply.state = "DONE"
    /\ writeq = <<>>
    /\ stream = <<>>
    /\ \E r \in {write(Idle, dcb, queue)} :
          /\ Commit(r.s)
          /\ dcb' = r.dcb
          /\ h_event' = ConnEvent("write", queue, r.rc)
    /\ stream' = <<TrackingOk(block)>>
    /\ h_req' = [cmd |-> MXS_COM_QUERY, block |-> block]
    /\ UNCHANGED <<readq, h_stream, h_cmd, h_emitted, h_accepted, srv, h_last>>

\* the OK has arrived
TrackRead ==
    /\ stream # <<>>
    /\ writeq = <<>>
    /\ \E r \in {gw_read_and_write(Idle, dcb, [rc |-> 1, pkts |-> stream])} :
          /\ Commit(r.s)
          /\ dcb' = r.dcb
          /\ h_event' = ConnEvent("ready_for_reading", stream, 1)
    /\ stream' = <<>>
    /\ UNCHANGED <<readq, h_stream, h_cmd, h_emitted, h_accepted, srv, h_req, h_last>>

NextTrack ==
    \/ \E queue \in {<<[len |-> 2, data |-> <<MXS_COM_QUERY, 83>>]>>,
                       <<[len |-> 2, data |-> <<MXS_COM_QUERY, 83>>, type |-> "TRACK_STATE"]>>},
          block \in {b \in TrackBlocks(MaxEntries) : Different(b)} :
          TrackWrite(queue, block)
    \/ WriteReady
    \/ TrackRead

SpecTrack == InitTrack /\ [][NextTrack]_vars

\* the extraction has run on the OK that answers the last query
Extracted ==
    /\ h_event.op = "ready_for_reading"
    /\ m_track_state
    /\ rcap_type_required(dcb.capabilities, "SESSION_STATE_TRACKING")

C27_OkEofByLength ==
    \A pkt \in BackendPackets :
        Classified(pkt) =>
            LET s == process_packet(Self, pkt) IN
            /\ (s.m_reply.is_ok /\ ~m_reply.is_ok) =>
                   (pkt.data[1] = MYSQL_REPLY_OK /\ pkt.len >= 7)
            /\ (m_reply.state = "RSET_ROWS" /\ pkt.data[1] = MYSQL_REPLY_EOF) =>
                   IF pkt.len < 9
                   THEN s.m_reply.state \in {"DONE", "START"} /\ s.m_reply.rows = m_reply.rows
                   ELSE s.m_reply.state = "RSET_ROWS" /\ s.m_reply.rows = m_reply.rows + 1

\* C28: a client packet submitted right after a client packet of 0xFFFFFF
\* bytes (the large-query flag is set) leaves the Reply as it is: not
\* cleared, its command and its state unchanged; and every client packet
\* sets the flag if it is 0xFFFFFF bytes long and clears it if it is shorter.
C28_LargeQueryFrame ==
    [][\A buf \in ClientBuffers :
          TrackQuery(buf) =>
              /\ (m_large_query /\ h_last.op = "track_query") => m_reply' = m_reply
              /\ m_large_query' = (buf.len = GW_MYSQL_MAX_PACKET_LEN)]_vars


(* ---------------------------------------------------------------------- *)
(* The server's handshake (SpecShake)                                      *)
(* ---------------------------------------------------------------------- *)
\* the protocol versions, the length bytes and the scrambles of the
\* handshakes a backend may send: the length byte is one more than the
\* declared length of the scramble, or 0
ShakeVersions == {9, GW_MYSQL_PROTOCOL_VERSION}
ShakeLengths == {0, 1, 8, 9, 10, 15, 21, 22}
Ramp == [i \in 1..GW_MYSQL_SCRAMBLE_SIZE |-> i]
ShakeScrambles == {Ramp}

Handshakes ==
    {Handshake(v, a, sc) : v \in ShakeVersions, a \in ShakeLengths, sc \in ShakeScrambles}

ShakeEvents ==
    {[kind |-> "none", ssl_handshake |-> o] : o \in SslOutcomes}
    \cup {[kind |-> "packet", pkt |-> pkt, auth |-> "SUCCESS", ssl_handshake |-> o] :
             pkt \in Handshakes \cup {OkPacket(0, 0)}, o \in SslOutcomes}

NextShake ==
    \/ \E ev \in ShakeEvents : ReadyForReading(ev)
    \/ \E outcome \in {"ESTABLISHED", "HANDSHAKE_FAILED"} : SslHandshake(outcome)
    \/ StopSession

SpecShake == InitAuth /\ [][NextShake]_vars

\* the read event that has just read the handshake pkt in Connected
HandshakeRead(pkt) ==
    /\ h_event.op = "ready_for_reading"
    /\ h_event.pre_auth = "CONNECTED"
    /\ h_event.queue = <<pkt>>

\* the first n bytes of the scramble sc, and zeros up to twenty bytes
Stored(sc, n) == [i \in 1..GW_MYSQL_SCRAMBLE_SIZE |-> IF i <= n THEN sc[i] ELSE 0]

\* C29: decoding the handshake fails, and the auth state does not become
\* ResponseSent, whenever the protocol byte is not 0x0a or the declared
\* scramble length L (one less than the length byte), when the byte is not
\* zero, does not satisfy 8 < L <= 20; otherwise it succeeds and stores a
\* scramble of twenty bytes.
C29_HandshakeChecked ==
    \A v \in ShakeVersions, a \in ShakeLengths, sc \in ShakeScrambles :
        HandshakeRead(Handshake(v, a, sc)) =>
            LET L == a - 1
            IN IF v # 10 \/ (a # 0 /\ ~(8 < L /\ L <= 20))
               THEN /\ m_auth_state = "FAIL"
                    /\ dcb.handle_error
               ELSE /\ Len(m_scramble) = 20
                    /\ m_scramble = Stored(sc, IF a = 0 THEN 20 ELSE L)
                    /\ h_event.pre_writeq # writeq => m_auth_state \in {"CONNECTED", "RESPONSE_SENT", "FAIL"}

\* the same with the declared length 8 taken for valid, as the test of the
\* release build has it
C29_HandshakeCheckedFrom8 ==
    \A v \in ShakeVersions, a \in ShakeLengths, sc \in ShakeScrambles :
        HandshakeRead(Handshake(v, a, sc)) =>
            LET L == a - 1
            IN IF v # 10 \/ (a # 0 /\ ~(8 <= L /\ L <= 20))
               THEN /\ m_auth_state = "FAIL"
                    /\ dcb.handle_error
                    /\ writeq = h_event.pre_writeq
               ELSE /\ Len(m_scramble) = 20
                    /\ m_scramble = Stored(sc, IF a = 0 THEN 20 ELSE L)
                    /\ (dcb.session_state = "STARTED" /\ ~dcb.ssl_context) =>
                           m_auth_state = "RESPONSE_SENT"

\* a handshake that declares 8 bytes of scramble has been accepted
C29_Length8Accepted ==
    /\ HandshakeRead(Handshake(10, 9, Ramp))
    /\ m_auth_state = "RESPONSE_SENT"
    /\ m_scramble = Stored(Ramp, 8)


(* ---------------------------------------------------------------------- *)
(* The handshake response and TLS (SpecAuth)                               *)
(* ---------------------------------------------------------------------- *)
\* the step is the read event that reads the server's handshake in Connected
HandshakeStep ==
    /\ m_auth_state = "CONNECTED"
    /\ h_event'.op = "ready_for_reading"
    /\ h_event'.queue = <<ServerHandshake(GW_MYSQL_PROTOCOL_VERSION)>>

\* the step appends one packet to the write queue: the stub of 32 bytes, or
\* the full response, with the sequence byte seq
SendsStub ==
    /\ Len(writeq') = Len(writeq) + 1
    /\ SubSeq(writeq', 1, Len(writeq)) = writeq
    /\ writeq'[Len(writeq')].len = 32
    /\ writeq'[Len(writeq')].seq = 1

SendsFull(seq) ==
    /\ Len(writeq') = Len(writeq) + 1
    /\ SubSeq(writeq', 1, Len(writeq)) = writeq
    /\ writeq'[Len(writeq')].len > 32
    /\ writeq'[Len(writeq')].seq = seq

\* the stub has been written and nothing after it
StubSent == writeq # <<>> /\ writeq[Len(writeq)].len = 32

\* C30 as claimed: with TLS required and not established the handshake makes
\* the connection send the stub only and stay in Connected; the full response
\* with sequence byte 2 is sent, and the state becomes ResponseSent, only in a
\* later event at which TLS is established; without TLS the handshake makes it
\* send the full response with sequence byte 1 and go to ResponseSent.
C30_StubThenResponse ==
    [][/\ (HandshakeStep /\ dcb.ssl_context /\ dcb.ssl_state # "ESTABLISHED") =>
              /\ SendsStub
              /\ m_auth_state' = "CONNECTED"
       /\ (dcb.ssl_context /\ m_auth_state # "RESPONSE_SENT" /\ m_auth_state' = "RESPONSE_SENT") =>
              /\ dcb.ssl_state = "ESTABLISHED"
              /\ StubSent
              /\ SendsFull(2)
       /\ (HandshakeStep /\ ~dcb.ssl_context) =>
              /\ SendsFull(1)
              /\ m_auth_state' = "RESPONSE_SENT"]_vars

\* the session is open and TLS, if it is required, has not failed
CanRespond ==
    /\ dcb.session_state \in {"CREATED", "STARTED"}
    /\ dcb.ssl_context => dcb.ssl_state # "HANDSHAKE_FAILED"

\* C30, amended: the same while the session is open and TLS has not failed;
\* if starting the TLS handshake fails the stub is sent and the state is
\* Fail, and with a closing session or a failed TLS handshake nothing is
\* sent and the state is Fail.
C30_StubUnlessFailed ==
    [][/\ (HandshakeStep /\ dcb.ssl_context /\ dcb.ssl_state # "ESTABLISHED" /\ CanRespond) =>
              /\ SendsStub
              /\ m_auth_state' = IF dcb'.ssl_state = "HANDSHAKE_FAILED" THEN "FAIL"
                                 ELSE "CONNECTED"
       /\ (dcb.ssl_context /\ m_auth_state # "RESPONSE_SENT" /\ m_auth_state' = "RESPONSE_SENT") =>
              /\ dcb.ssl_state = "ESTABLISHED"
              /\ StubSent
              /\ SendsFull(2)
       /\ (HandshakeStep /\ ~dcb.ssl_context /\ CanRespond) =>
              /\ SendsFull(1)
              /\ m_auth_state' = "RESPONSE_SENT"
       /\ (HandshakeStep /\ ~CanRespond) =>
              /\ writeq' = writeq
              /\ m_auth_state' = "FAIL"]_vars

\* the stub was sent on the handshake, and a later read event without a
\* packet, with TLS established, has sent the full response
C30_Witness ==
    /\ h_event.op = "ready_for_reading"
    /\ h_event.queue = <<>>
    /\ h_event.pre_auth = "CONNECTED"
    /\ h_event.pre_writeq = gw_generate_auth_response(Self, TRUE, FALSE, dcb.capabilities)
    /\ dcb.ssl_context
    /\ dcb.ssl_state = "ESTABLISHED"
    /\ m_auth_state = "RESPONSE_SENT"
    /\ Len(writeq) = 2
    /\ writeq[2].seq = 2


(* ---------------------------------------------------------------------- *)
(* The scrambled password (SpecScramble)                                   *)
(* ---------------------------------------------------------------------- *)
\* the scrambles a backend sends and the password hashes of the sessions
Descent == [i \in 1..GW_MYSQL_SCRAMBLE_SIZE |-> 250 - 11 * i]
ScrScrambles == {Ramp, Descent, Bytes20(7)}
ScrHashes == {Descent, Bytes20(200)}
ScrSessions == {[ClientData(118, 1) EXCEPT !.auth_token_phase2 = h] : h \in ScrHashes}

InitScramble ==
    /\ \E session \in ScrSessions : Holds([InitSelf EXCEPT !.m_client_data = session])
    /\ dcb = [PlainDcb EXCEPT !.persistent_conns_enabled = TRUE]
    /\ h_event = NoEvent
    /\ h_accepted = <<>>
    /\ h_last = NoHistory
    /\ h_req = NoRequest
    /\ srv = NoScrambles
    /\ InitNet

\* the backend sends its handshake, accepts the response, asks for another
\* scramble and accepts; the client changes its user; the connection goes
\* through the pool to another session
NextScramble ==
    \/ \E scramble \in ScrScrambles :
          ConnAuthenticate([kind |-> "packet", auth |-> "SUCCESS",
                            ssl_handshake |-> "ESTABLISHED",
                            pkt |-> Handshake(GW_MYSQL_PROTOCOL_VERSION,
                                              GW_MYSQL_SCRAMBLE_SIZE + 1, scramble)])
    \/ ConnAuthenticate([kind |-> "packet", auth |-> "SUCCESS",
                         ssl_handshake |-> "ESTABLISHED", pkt |-> OkPacket(0, 0)])
    \/ \E scramble \in ScrScrambles :
          ConnRead([rc |-> 1, pkts |-> <<AuthSwitchWith(DEFAULT_MYSQL_AUTH_PLUGIN, scramble)>>])
    \/ ConnRead([rc |-> 1, pkts |-> <<OkPacket(0, 0)>>])
    \/ ConnWrite(<<ClientPacket(MXS_COM_CHANGE_USER, <<83>>)>>)
    \/ WriteReady
    \/ \E session \in ScrSessions : Reuse(session)

SpecScramble == InitScramble /\ [][NextScramble]_vars

\* H1 XOR SHA1(S || SHA1(H1))
Scrambled(S, H1) ==
    CHOOSE value \in {[i \in 1..GW_MYSQL_SCRAMBLE_SIZE |-> Xor8(H1[i], digest[i])] :
                         digest \in {SHA1(S \o SHA1(H1))}} : TRUE

\* the length byte at data[at] is 20 and the twenty bytes behind it are value
PasswordAt(data, at, value) ==
    /\ Len(data) >= at + GW_MYSQL_SCRAMBLE_SIZE
    /\ data[at] = GW_MYSQL_SCRAMBLE_SIZE
    /\ SubSeq(data, at + 1, at + GW_MYSQL_SCRAMBLE_SIZE) = value

\* C31: with a password hash H1 cached, the password in the handshake
\* response, in the COM_CHANGE_USER packet and in the reply to an
\* AuthSwitchRequest is H1 XOR SHA1(S || SHA1(H1)), twenty bytes, for the
\* scramble S the connection holds when it writes the packet.
C31_SameScramble ==
    [][(Len(writeq') > Len(writeq) /\ m_client_data'.auth_token_phase2 # <<>>) =>
          \A value \in {Scrambled(m_scramble', m_client_data'.auth_token_phase2)} :
          LET user == m_client_data'.user
              last == writeq'[Len(writeq')]
          IN /\ Len(value) = GW_MYSQL_SCRAMBLE_SIZE
             /\ (m_auth_state = "CONNECTED" /\ m_auth_state' = "RESPONSE_SENT") =>
                    PasswordAt(last.data, 32 + Len(user) + 2, value)
             /\ (m_auth_state = "COMPLETE" /\ last.seq = 0
                 /\ last.data[1] = MXS_COM_CHANGE_USER) =>
                    PasswordAt(last.data, 1 + Len(user) + 2, value)
             /\ (h_event'.op = "ready_for_reading" /\ m_auth_state = "COMPLETE"
                 /\ NativeSwitch(Found(h_event'.queue))) =>
                    /\ m_scramble' = NewScramble(Found(h_event'.queue))
                    /\ last.data = value]_vars

\* the three packets have been written for the same scramble and the same
\* hash, neither of them uniform: the last one is the reply to the
\* AuthSwitchRequest
C31_Witness ==
    /\ h_event.op = "ready_for_reading"
    /\ h_event.queue = <<AuthSwitchWith(DEFAULT_MYSQL_AUTH_PLUGIN, Ramp)>>
    /\ srv.handshake = Ramp
    /\ m_scramble = Ramp
    /\ m_client_data.auth_token_phase2 = Descent
    /\ Len(writeq) = 1
    /\ writeq[1].seq = 2
    /\ writeq[1].data = Scrambled(Ramp, Descent)
    /\ writeq[1].data = SubSeq(gw_create_change_user_packet(Self)[1].data, 5, 24)
    /\ writeq[1].data = SubSeq(gw_generate_auth_response(Self, FALSE, FALSE,
                                                         dcb.capabilities)[1].data, 36, 55)


(* ---------------------------------------------------------------------- *)
(* The PROXY protocol header                                              *)
(* ---------------------------------------------------------------------- *)
INET6_ADDRSTRLEN == 46
ProxyHeaderSize == 108

\* "%d" of snprintf for a number that is not negative
RECURSIVE Dec(_)
Dec(n) == IF n < 10 THEN <<48 + n>> ELSE Dec(n \div 10) \o <<48 + (n % 10)>>

\* "%x" of sprintf
RECURSIVE Hex(_)
Hex(n) ==
    LET digit == IF n % 16 < 10 THEN 48 + (n % 16) ELSE 87 + (n % 16)
    IN IF n < 16 THEN <<digit>> ELSE Hex(n \div 16) \o <<digit>>

\* inet_ntop(AF_INET): the four bytes in decimal, with dots between them
inet_ntop4(addr) ==
    Dec(addr[1]) \o <<46>> \o Dec(addr[2]) \o <<46>> \o Dec(addr[3]) \o <<46>> \o Dec(addr[4])

\* the number of zero words that follow each other from words[i] on
RECURSIVE ZeroRun(_, _)
ZeroRun(words, i) ==
    IF i > Len(words) \/ words[i] # 0 THEN 0 ELSE 1 + ZeroRun(words, i + 1)

\* inet_ntop(AF_INET6): the eight words in hexadecimal with colons between
\* them; the first of the longest runs of two or more zero words is
\* written "::", and the last two words are written as an IPv4 address
\* behind a run of six zero words, or of five and 0xffff
inet_ntop6(words) ==
    LET Starts == {i \in 1..8 : /\ ZeroRun(words, i) >= 2
                                /\ (i = 1 \/ words[i - 1] # 0)}
        base == IF Starts = {} THEN 0
                ELSE CHOOSE i \in Starts :
                        \A j \in Starts : \/ ZeroRun(words, j) < ZeroRun(words, i)
                                          \/ ZeroRun(words, j) = ZeroRun(words, i) /\ i <= j
        len == IF base = 0 THEN 0 ELSE ZeroRun(words, base)
        Text[i \in 1..9] ==
            IF i = 9 THEN (IF base # 0 /\ base + len = 9 THEN <<58>> ELSE <<>>)
            ELSE IF base # 0 /\ i >= base /\ i < base + len
                 THEN (IF i = base THEN <<58>> ELSE <<>>) \o Text[i + 1]
            ELSE (IF i # 1 THEN <<58>> ELSE <<>>)
                 \o (IF i = 7 /\ base = 1 /\ (len = 6 \/ (len = 5 /\ words[6] = 65535))
                     THEN inet_ntop4(<<words[7] \div 256, words[7] % 256,
                                       words[8] \div 256, words[8] % 256>>)
                     ELSE Hex(words[i]) \o Text[i + 1])
    IN Text[1]

\* the address as a string and the port; no success for a family that is
\* neither AF_INET nor AF_INET6, and none if the string does not fit
get_ip_string_and_port(sa, iplen) ==
    LET ip == IF sa.ss_family = AF_INET THEN inet_ntop4(sa.addr)
              ELSE IF sa.ss_family = AF_INET6 THEN inet_ntop6(sa.addr)
              ELSE <<>>
        success == sa.ss_family \in {AF_INET, AF_INET6} /\ Len(ip) < iplen
    IN [success |-> success, ip |-> IF success THEN ip ELSE <<>>,
        port |-> IF success THEN sa.port ELSE 0]

\* "PROXY ", "TCP4", "TCP6", "UNKNOWN" and "\r\n"
ProxyWord == <<80, 82, 79, 88, 89>>
Tcp4 == <<84, 67, 80, 52>>
Tcp6 == <<84, 67, 80, 54>>
Unknown == <<85, 78, 75, 78, 79, 87, 78>>
CrLf == <<13, 10>>

\* the addresses of the client's socket as strings, the family of the
\* client's address as a word, and the line printed into 108 bytes; nothing
\* is sent if getpeername or getsockname fails, if an address cannot be
\* converted, or if the line does not fit
gw_send_proxy_protocol_header(s, backend_dcb) ==
    LET client_dcb == backend_dcb.client_dcb
        family == client_dcb.family
        peer == get_ip_string_and_port(client_dcb.sa_peer, INET6_ADDRSTRLEN)
        maxscale == get_ip_string_and_port(client_dcb.sa_local, INET6_ADDRSTRLEN)
        family_str == IF family = AF_INET THEN Tcp4
                      ELSE IF family = AF_INET6 THEN Tcp6 ELSE Unknown
        proxy_header ==
            IF family = AF_INET \/ family = AF_INET6
            THEN ProxyWord \o <<32>> \o family_str \o <<32>> \o peer.ip \o <<32>>
                 \o maxscale.ip \o <<32>> \o Dec(peer.port) \o <<32>>
                 \o Dec(maxscale.port) \o CrLf
            ELSE ProxyWord \o <<32>> \o family_str \o CrLf
    IN IF client_dcb.getpeername = -1 \/ client_dcb.getsockname = -1 THEN s
       ELSE IF ~peer.success \/ ~maxscale.success THEN s
       ELSE IF Len(proxy_header) >= ProxyHeaderSize THEN s
       ELSE [s EXCEPT !.writeq = Append(@, [data |-> proxy_header])]

init_connection(s, d) ==
    IF d.proxy_protocol THEN gw_send_proxy_protocol_header(s, d) ELSE s

\* the connection has been made and is initialised, once
InitConnection ==
    /\ h_event = NoEvent
    /\ Commit(init_connection(Idle, dcb))
    /\ h_event' = ConnEvent("init_connection", <<>>, 0)
    /\ UNCHANGED <<dcb, h_accepted, netvars, srv, h_req, h_last>>

\* addresses and ports of clients and of the proxy
ProxyAddr4 == {<<10, 0, 0, 7>>, <<192, 168, 100, 200>>, <<255, 255, 255, 255>>}
ProxyAddr6 ==
    {<<0, 0, 0, 0, 0, 0, 0, 1>>,
     <<8193, 3512, 0, 0, 0, 0, 0, 1>>,
     <<1, 0, 0, 2, 0, 0, 0, 3>>,
     <<0, 0, 0, 0, 0, 65535, 2560, 7>>,
     <<65535, 65535, 65535, 65535, 65535, 65535, 65535, 65535>>}
ProxyPorts == {1, 3306, 65535}

\* the peer and the local address of a socket have the same family, and
\* the address kept in the client DCB is that of the peer
ProxyClients ==
    {ClientDcb(SockAddr(AF_INET, a, p), SockAddr(AF_INET, b, q)) :
        a \in ProxyAddr4, b \in ProxyAddr4, p \in ProxyPorts, q \in ProxyPorts}
    \cup {ClientDcb(SockAddr(AF_INET6, a, p), SockAddr(AF_INET6, b, q)) :
        a \in ProxyAddr6, b \in ProxyAddr6, p \in ProxyPorts, q \in ProxyPorts}
    \cup {ClientDcb(SockAddr(AF_UNIX, <<>>, 0), SockAddr(AF_UNIX, <<>>, 0))}
    \cup {[LocalClient EXCEPT !.getpeername = -1], [LocalClient EXCEPT !.getsockname = -1]}

InitProxy ==
    /\ Holds(InitSelf)
    /\ \E client \in ProxyClients, enabled \in BOOLEAN :
          dcb = [PlainDcb EXCEPT !.proxy_protocol = enabled, !.client_dcb = client]
    /\ h_event = NoEvent
    /\ h_accepted = <<>>
    /\ h_last = NoHistory
    /\ h_req = NoRequest
    /\ srv = NoScrambles
    /\ InitNet

NextProxy ==
    \/ InitConnection
    \/ WriteReady

SpecProxy == InitProxy /\ [][NextProxy]_vars

\* the line of the header for a family word and the two ends of the socket
ProxyLine(word, client) ==
    IF word = Unknown THEN ProxyWord \o <<32>> \o word \o CrLf
    ELSE ProxyWord \o <<32>> \o word \o <<32>>
         \o get_ip_string_and_port(client.sa_peer, INET6_ADDRSTRLEN).ip \o <<32>>
         \o get_ip_string_and_port(client.sa_local, INET6_ADDRSTRLEN).ip \o <<32>>
         \o Dec(client.sa_peer.port) \o <<32>> \o Dec(client.sa_local.port) \o CrLf

FamilyWord(family) ==
    IF family = AF_INET THEN Tcp4 ELSE IF family = AF_INET6 THEN Tcp6 ELSE Unknown

ProxyInit ==
    /\ h_event'.op = "init_connection"
    /\ dcb.proxy_protocol
    /\ dcb.client_dcb.getpeername = 0
    /\ dcb.client_dcb.getsockname = 0

\* C32: with the PROXY protocol enabled, init_connection appends exactly
\* one header line of at most 107 bytes for every family of the client
\* address: TCP4 for IPv4, TCP6 for IPv6 and UNKNOWN for any other family.
C32_ProxyHeader ==
    [][ProxyInit =>
          /\ Len(writeq') = Len(writeq) + 1
          /\ Len(writeq'[Len(writeq')].data) <= ProxyHeaderSize - 1
          /\ writeq'[Len(writeq')].data
                = ProxyLine(FamilyWord(dcb.client_dcb.family), dcb.client_dcb)]_vars

\* the same for IPv4 and IPv6 clients; for another family nothing is sent
C32_ProxyHeaderInet ==
    [][ProxyInit =>
          IF dcb.client_dcb.family \in {AF_INET, AF_INET6}
          THEN /\ Len(writeq') = Len(writeq) + 1
               /\ Len(writeq'[Len(writeq')].data) <= ProxyHeaderSize - 1
               /\ writeq'[Len(writeq')].data
                     = ProxyLine(FamilyWord(dcb.client_dcb.family), dcb.client_dcb)
          ELSE writeq' = writeq]_vars

\* the longest line: two full IPv6 addresses and two ports of five digits
C32_LongestLine ==
    /\ h_event.op = "init_connection"
    /\ writeq # <<>>
    /\ Len(writeq[1].data) = 104
    /\ SubSeq(writeq[1].data, 1, 11) = ProxyWord \o <<32>> \o Tcp6 \o <<32>>

\* a client on a socket of another family: nothing has been sent
C32_OtherFamilySilent ==
    /\ h_event.op = "init_connection"
    /\ dcb.proxy_protocol
    /\ dcb.client_dcb.family = AF_UNIX
    /\ writeq = <<>>


(* ---------------------------------------------------------------------- *)
(* Done and the packets of the backend (SpecReply)                         *)
(* ---------------------------------------------------------------------- *)
\* C33: once the reply state is Done no packet of the backend changes it:
\* an ERR only replaces the recorded error, any other packet leaves the
\* Reply as it is; the state leaves Done only in track_query.
C33_DoneAbsorbing ==
    /\ [](m_reply.state = "DONE" =>
            \A pkt \in BackendPackets :
                ServerSends(pkt) =>
                    \A fed \in {process_packet(Self, pkt)} :
                        fed.m_reply =
                            IF Classified(pkt) /\ pkt.data[1] = MYSQL_REPLY_ERR
                            THEN [m_reply EXCEPT !.error =
                                     [code |-> pkt.data[2] + 256 * pkt.data[3],
                                      sql_state |-> SubSeq(pkt.data, 5, 9),
                                      message |-> SubSeq(pkt.data, 10, pkt.len)]]
                            ELSE m_reply)
    /\ [][(m_reply.state = "DONE" /\ m_reply'.state # "DONE") =>
             h_last'.op = "track_query"]_vars

\* an OK has completed the reply and an ERR has arrived in Done
C33_Witness ==
    /\ h_last.op = "process_packets"
    /\ h_last.pre_state = "DONE"
    /\ m_reply.state = "DONE"
    /\ m_reply.is_ok
    /\ Error_present(m_reply.error)


(* ---------------------------------------------------------------------- *)
(* LOAD DATA LOCAL INFILE (SpecWF)                                         *)
(* ---------------------------------------------------------------------- *)
\* the packets of the file and the empty packet that ends it
FilePackets == {ClientPacket(102, <<102>>), EmptyPacket}

\* an OK without SERVER_MORE_RESULTS_EXIST, or an ERR
FinalAnswer(pkt) ==
    \/ pkt.data[1] = MYSQL_REPLY_ERR
    \/ pkt \in LastOkPackets

\* C34: a LOCAL_INFILE packet in Start marks the load active and completes
\* the reply; while the load is active a client packet that is not empty
\* leaves the Reply and the load as they are; the first empty client packet
\* ends the load and sets the state to Start, the rest of the Reply staying;
\* the OK or ERR of the server then completes the reply.
C34_LoadData ==
    [][/\ \A e \in ServerSteps(srv) :
             (/\ m_reply.state = "START"
              /\ e.pkt = LocalInfilePacket
              /\ Deliver(e)) => (load_active' /\ m_reply'.state = "DONE")
       /\ \A buf \in FilePackets :
             (load_active /\ SendFile(buf)) =>
                 IF buf.len > 0
                 THEN load_active' /\ m_reply' = m_reply
                 ELSE /\ ~load_active'
                      /\ m_reply' = [m_reply EXCEPT !.state = "START"]
       /\ \A e \in ServerSteps(srv) :
             (/\ h_last.op = "track_query"
              /\ h_last.pre_state = "DONE"
              /\ m_reply.state = "START"
              /\ ~load_active
              /\ srv.phase = "first"
              /\ h_req.done = 0 /\ ~h_req.chain
              /\ FinalAnswer(e.pkt)
              /\ Deliver(e)) => m_reply'.state = "DONE"]_vars

\* the file has been sent in a packet and ended by an empty one, and the
\* server has answered to the load with an OK
C34_Witness ==
    /\ h_last.op = "process_packets"
    /\ h_last.pre_state = "START"
    /\ ~load_active
    /\ m_reply.state = "DONE"
    /\ m_reply.is_ok
    /\ m_reply.command = MXS_COM_QUERY
    /\ m_reply.field_counts = <<>>
    /\ ~Error_present(m_reply.error)
    /\ h_req.done = 1 /\ ~h_req.chain /\ h_req.oks = 1


(* ---------------------------------------------------------------------- *)
(* The responses to a COM_CHANGE_USER of the client                        *)
(* ---------------------------------------------------------------------- *)
\* a read event on an authenticated connection that is changing the user
\* has found packets
ChangeUserRead ==
    /\ h_event'.op = "ready_for_reading"
    /\ h_event'.rc >= 0
    /\ h_event'.queue # <<>>
    /\ m_auth_state = "COMPLETE"
    /\ m_changing_user

\* the AuthSwitchRequest is answered with the password scrambled anew and
\* nothing goes upstream
SwitchHandled(reply) ==
    /\ m_scramble' = NewScramble(reply)
    /\ Len(writeq') = Len(writeq) + 1
    /\ writeq'[Len(writeq')].len = GW_MYSQL_SCRAMBLE_SIZE
    /\ m_upstream' = m_upstream

\* the response goes upstream, with the sequence number 3
FinalDelivered(reply) ==
    m_upstream' = clientReply([Self EXCEPT !.m_reply = m_reply'],
                              [reply EXCEPT ![1].seq = 3], FALSE).m_upstream

\* C35: while the user is being changed for the client an AuthSwitchRequest
\* to mysql_native_password is answered by the connection and not delivered
\* upstream, m_changing_user stays; any other response clears
\* m_changing_user and is delivered upstream.
C35_ChangeUserSwitch ==
    [][ChangeUserRead =>
          IF NativeSwitch(h_event'.queue)
          THEN SwitchHandled(h_event'.queue) /\ m_changing_user'
          ELSE ~m_changing_user' /\ FinalDelivered(h_event'.queue)]_vars


\* the same on a connection that is not waiting for a reply to ignore and
\* whose session can be routed to
C35_ChangeUserSwitchRouted ==
    [][(ChangeUserRead /\ m_ignore_replies = 0 /\ session_ok_to_route(dcb)) =>
          IF NativeSwitch(h_event'.queue)
          THEN SwitchHandled(h_event'.queue) /\ m_changing_user'
          ELSE ~m_changing_user' /\ FinalDelivered(h_event'.queue)]_vars


(* ---------------------------------------------------------------------- *)
(* Taking a connection out of the pool (SpecPool)                          *)
(*                                                                         *)
(* reuse_connection is called on a DCB without read, write and delay       *)
(* queue, whatever the state of the authentication; the pool has enabled   *)
(* the events of the DCB or has failed to, and the write queue takes the   *)
(* COM_CHANGE_USER or does not.                                            *)
(* ---------------------------------------------------------------------- *)
PoolReads ==
    {[rc |-> 1, pkts |-> <<pkt>>] :
        pkt \in {OkPacket(0, 0), ErrPacket(1045),
                 AuthSwitchRequest(DEFAULT_MYSQL_AUTH_PLUGIN, 9)}}

ReuseAttempt(session, state, appended) ==
    /\ Open
    /\ writeq = <<>>
    /\ delayq = <<>>
    /\ \E r \in {reuse_connection(Self, [dcb EXCEPT !.session_state = "STARTED",
                                                    !.state = state],
                                  session, appended)} :
          /\ Commit(r.s)
          /\ dcb' = r.dcb
          /\ h_event' = ConnEvent("reuse_connection", <<>>, IF r.rv THEN 1 ELSE 0)
          /\ srv' = [srv EXCEPT !.reuse = r.rv]
    /\ UNCHANGED <<h_accepted, netvars, h_req, h_last>>

NextPool ==
    \/ \E queue \in AuthClientBuffers : ConnWrite(queue)
    \/ \E ev \in ConnAuthEvents : ConnAuthenticate(ev)
    \/ \E ev \in PoolReads : ConnRead(ev)
    \/ WriteReady
    \/ \E session \in Sessions, state \in {"POLLING", "NOPOLLING"}, appended \in BOOLEAN :
          ReuseAttempt(session, state, appended)

SpecPool == InitConn /\ [][NextPool]_vars

\* C36: reuse_connection returns true only if the authentication is
\* complete and the DCB is polling; then one COM_CHANGE_USER is in the write
\* queue, m_ignore_replies is 1 and no query is stored; when it returns
\* false the write queue is as it was and the session and the upstream
\* component are those of before.
C36_ReuseOutcome ==
    [][h_event'.op = "reuse_connection" =>
          IF h_event'.rc = 1
          THEN /\ m_auth_state = "COMPLETE"
               /\ dcb'.state = "POLLING"
               /\ Len(writeq') = Len(writeq) + 1
               /\ writeq'[Len(writeq')].data[1] = MXS_COM_CHANGE_USER
               /\ m_ignore_replies' = 1
               /\ m_stored_query' = <<>>
          ELSE /\ writeq' = writeq
               /\ m_client_data' = m_client_data
               /\ m_upstream' = m_upstream]_vars

\* a reuse has succeeded for another session: its COM_CHANGE_USER is the
\* one packet of the write queue
C36_Witness ==
    /\ h_event.op = "reuse_connection"
    /\ h_event.rc = 1
    /\ m_ignore_replies = 1
    /\ m_stored_query = <<>>
    /\ m_client_data = ClientData(119, 0)
    /\ Len(writeq) = 1

\* a reuse has failed because the write queue did not take the packet: the
\* session and the replies its upstream component has received are those of
\* before
C36_Restored ==
    /\ h_event.op = "reuse_connection"
    /\ h_event.rc = 0
    /\ h_event.pre_auth = "COMPLETE"
    /\ dcb.state = "POLLING"
    /\ m_client_data = ClientData(117, 1)
    /\ m_upstream # <<>>
    /\ writeq = <<>>


(* ---------------------------------------------------------------------- *)
(* The count of replies to ignore                                          *)
(* ---------------------------------------------------------------------- *)
\* C37: m_ignore_replies is 0 or 1 in every state; a buffer written (by the
\* router or by ping()) while it is positive is not put in the write queue
\* but appended to the stored query (a COM_QUIT triggers a hangup), and a
\* read of ignorable replies never adds to it: the count goes down by one,
\* and up again by one only if an AuthSwitchRequest was answered or the
\* stored query written is itself ignorable.
C37_IgnoreReplies ==
    /\ [](m_ignore_replies \in {0, 1})
    /\ [][(h_event'.op \in {"write", "ping"} /\ m_ignore_replies > 0
           /\ (h_event'.op = "ping" => m_reply.state = "DONE")) =>
             /\ writeq' = writeq
             /\ m_ignore_replies' = m_ignore_replies
             /\ IF h_event'.queue[1].data[1] = MXS_COM_QUIT
                THEN m_stored_query' = m_stored_query /\ dcb'.hangup_event
                ELSE m_stored_query' = m_stored_query \o h_event'.queue]_vars
    /\ [][(h_event'.op = "ready_for_reading" /\ m_auth_state = "COMPLETE"
           /\ m_ignore_replies > 0 /\ h_event'.queue # <<>>) =>
             \/ m_ignore_replies' = m_ignore_replies - 1
             \/ /\ m_ignore_replies' = m_ignore_replies
                /\ \/ auth_change_requested(<<h_event'.queue[Len(h_event'.queue)]>>)
                   \/ gwbuf_is_ignorable(m_stored_query)]_vars

\* a ping was written while the reply to the COM_CHANGE_USER of
\* reuse_connection was awaited: it is stored and the count is still 1
C37_Witness ==
    /\ h_event.op = "ping"
    /\ m_ignore_replies = 1
    /\ m_stored_query # <<>>
    /\ gwbuf_is_ignorable(<<m_stored_query[Len(m_stored_query)]>>)
    /\ srv.reuse

\* a reply to ignore has been read and no hangup was triggered: the count
\* is 0 again
C37_Decremented ==
    /\ h_event.op = "ready_for_reading"
    /\ h_event.pre_auth = "COMPLETE"
    /\ h_event.queue # <<>>
    /\ m_ignore_replies = 0
    /\ ~srv.reuse
    /\ ~dcb.hangup_event


(* ---------------------------------------------------------------------- *)
(* Which buffer makes write() send a COM_CHANGE_USER                       *)
(* ---------------------------------------------------------------------- *)
\* C38: a write() or a ping() puts a COM_CHANGE_USER packet in the write
\* queue only if the buffer written is itself a COM_CHANGE_USER.
C38_ChangeUserOnlyWritten ==
    [][(h_event'.op \in {"write", "ping"}
        /\ h_event'.queue[1].data[1] # MXS_COM_CHANGE_USER) =>
          \A i \in (Len(writeq) + 1)..Len(writeq') :
              writeq'[i].data[1] # MXS_COM_CHANGE_USER]_vars


(* ---------------------------------------------------------------------- *)
(* How long the flag of an opening cursor lasts                            *)
(* ---------------------------------------------------------------------- *)
\* C39: a reply goes from the EOF of its column definitions to Done only if
\* the command it answers is a COM_STMT_EXECUTE with a non-zero cursor flag.
C39_CursorOfThisCommand ==
    [][(/\ h_last'.op = "process_packets"
        /\ m_reply.state = "RSET_COLDEF_EOF"
        /\ ~m_skip_next
        /\ m_reply'.state = "DONE") =>
          /\ srv.cmd = MXS_COM_STMT_EXECUTE
          /\ srv.cursor]_vars


(* ---------------------------------------------------------------------- *)
(* A pooled connection and a backend that answers (SpecLive)               *)
(*                                                                         *)
(* The connection is authenticated. What write_ready drains to the socket  *)
(* reaches the backend, which answers every packet: a COM_CHANGE_USER with *)
(* OK, ERR or an AuthSwitchRequest, after which it awaits the response and *)
(* answers it with OK or ERR; a COM_QUERY with OK or ERR; a COM_PING with  *)
(* OK. stream holds the packets it has sent that have not been read. The   *)
(* worker delivers the write and read events of the DCB. The keepalive     *)
(* pings a connection a bounded number of times while a session uses it.   *)
(* ---------------------------------------------------------------------- *)
MaxInFlight == 2
\* the pings of the keepalive between two sessions
MaxPings == 1

LiveAnswers == {"ok", "err", "switch", "other"}

\* the answer of the backend to one packet; switching: it has sent an
\* AuthSwitchRequest and the packet is the response to it
LiveAnswer(pkt, switching, ans) ==
    IF switching
    THEN [pkts |-> <<IF ans = "err" THEN ErrPacket(1045) ELSE OkPacket(0, 0)>>,
          switching |-> FALSE]
    ELSE IF pkt.data[1] = MXS_COM_CHANGE_USER /\ ans = "switch"
    THEN [pkts |-> <<AuthSwitchRequest(DEFAULT_MYSQL_AUTH_PLUGIN, 9)>>, switching |-> TRUE]
    ELSE IF pkt.data[1] = MXS_COM_CHANGE_USER /\ ans = "other"
    THEN [pkts |-> <<AuthSwitchRequest(OtherPlugin, 9)>>, switching |-> TRUE]
    ELSE IF pkt.data[1] = MXS_COM_PING
    THEN [pkts |-> <<OkPacket(0, 0)>>, switching |-> FALSE]
    ELSE [pkts |-> <<IF ans = "err" THEN ErrPacket(1045) ELSE OkPacket(0, 0)>>,
          switching |-> FALSE]

\* the answers to the packets of queue, in order
RECURSIVE LiveServe(_, _, _)
LiveServe(queue, switching, ans) ==
    IF queue = <<>> THEN [pkts |-> <<>>, switching |-> switching]
    ELSE LET first == LiveAnswer(queue[1], switching, ans)
             rest == LiveServe(Tail(queue), first.switching, ans)
         IN [pkts |-> first.pkts \o rest.pkts, switching |-> rest.switching]

InitLive ==
    /\ Holds(Authenticated)
    /\ dcb = [PlainDcb EXCEPT !.persistent_conns_enabled = TRUE, !.session_state = "STARTED"]
    /\ h_event = NoEvent
    /\ h_accepted = <<>>
    /\ h_last = NoHistory
    /\ h_req = NoRequest
    /\ srv = [handshake |-> Bytes20(0), last |-> Bytes20(0), reuse |-> FALSE,
              switching |-> FALSE, pings |-> 0]
    /\ InitNet

livevars == <<readq, h_stream, h_cmd, h_emitted, h_accepted, h_req, h_last>>

\* the router writes a client buffer
LiveWrite(queue) ==
    /\ Open
    /\ writeq = <<>>
    /\ Len(stream) < MaxInFlight
    /\ Len(m_stored_query) < MaxQueued
    /\ \E r \in {write(Idle, dcb, queue)} :
          /\ Commit(r.s)
          /\ dcb' = r.dcb
          /\ h_event' = ConnEvent("write", queue, r.rc)
    /\ UNCHANGED <<livevars, stream, srv>>

\* ping(), on a connection in use
LivePing ==
    /\ Open
    /\ writeq = <<>>
    /\ Len(stream) < MaxInFlight
    /\ Len(m_stored_query) < MaxQueued
    /\ srv.pings < MaxPings
    /\ \E r \in {ping(Idle, dcb)} :
          /\ Commit(r.s)
          /\ dcb' = r.dcb
    /\ h_event' = ConnEvent("ping", modutil_create_ignorable_ping, 0)
    /\ srv' = [srv EXCEPT !.pings = @ + 1]
    /\ UNCHANGED <<livevars, stream>>

\* the session ends, the established connection goes to the pool and
\* another session takes it from there
LiveReuse(session) ==
    /\ Open
    /\ established(Self)
    /\ writeq = <<>>
    /\ Len(stream) < MaxInFlight
    /\ \E r \in {reuse_connection(Idle, dcb, session, TRUE)} :
          /\ Commit(r.s)
          /\ dcb' = r.dcb
          /\ h_event' = ConnEvent("reuse_connection", <<>>, IF r.rv THEN 1 ELSE 0)
          /\ srv' = [srv EXCEPT !.reuse = r.rv, !.pings = 0]
    /\ UNCHANGED <<livevars, stream>>

\* the socket is writable: the write queue reaches the backend, which answers
LiveFlush(ans) ==
    /\ Open
    /\ writeq # <<>>
    /\ \E answer \in {LiveServe(writeq, srv.switching, ans)} :
          /\ stream' = stream \o answer.pkts
          /\ srv' = [srv EXCEPT !.switching = answer.switching]
    /\ Commit(write_ready(Idle, dcb))
    /\ h_event' = ConnEvent("write_ready", <<>>, 0)
    /\ UNCHANGED <<livevars, dcb>>

\* the socket is readable: the first k packets of stream are read
LiveRead(k) ==
    /\ Open
    /\ writeq = <<>>
    /\ k \in 1..Len(stream)
    /\ \E r \in {ready_for_reading(Idle, dcb, [rc |-> 1, pkts |-> SubSeq(stream, 1, k)])} :
          /\ Commit(r.s)
          /\ dcb' = r.dcb
    /\ stream' = SubSeq(stream, k + 1, Len(stream))
    /\ srv' = [srv EXCEPT !.reuse = @ /\ Answered(SubSeq(stream, 1, k))]
    /\ h_event' = ConnEvent("ready_for_reading", SubSeq(stream, 1, k), 1)
    /\ UNCHANGED livevars

LiveFlushes == \E ans \in LiveAnswers : LiveFlush(ans)
LiveReads == \E k \in 1..MaxInFlight + MaxQueued + 1 : LiveRead(k)

NextLive ==
    \/ \E queue \in AuthClientBuffers : LiveWrite(queue)
    \/ LivePing
    \/ LiveReuse(ClientData(119, 0))
    \/ LiveFlushes
    \/ LiveReads

\* the worker delivers the write and the read events that are due
SpecLive == InitLive /\ [][NextLive]_vars /\ WF_vars(LiveFlushes) /\ WF_vars(LiveReads)

\* the connection is established, or a hangup or an error has closed it
Settled == established(Self) \/ ~Open

\* C40: after a reuse_connection that succeeded the connection is eventually
\* established (auth state Complete, m_ignore_replies = 0, no stored query)
\* or closed by a hangup; and the read of the reply to its COM_CHANGE_USER
\* that empties the stored query without a hangup has put a packet in the
\* write queue for every buffer that was stored, with its command byte.
\* the liveness alone
C40_Settles == (h_event.op = "reuse_connection" /\ h_event.rc = 1) ~> Settled

C40_ReuseSettles ==
    /\ (h_event.op = "reuse_connection" /\ h_event.rc = 1) ~> Settled
    /\ [][(/\ h_event'.op = "ready_for_reading"
           /\ srv.reuse
           /\ m_stored_query # <<>>
           /\ m_stored_query' = <<>>
           /\ ~dcb'.hangup_event) =>
             /\ Len(writeq') = Len(writeq) + Len(m_stored_query)
             /\ \A i \in 1..Len(m_stored_query) :
                   writeq'[Len(writeq) + i].data[1] = m_stored_query[i].data[1]]_vars

\* the reply to the COM_CHANGE_USER of reuse_connection was OK, and the
\* query of the client that was stored meanwhile is in the write queue
C40_Witness ==
    /\ h_event.op = "ready_for_reading"
    /\ established(Self)
    /\ Open
    /\ m_client_data \in Sessions
    /\ Len(writeq) = 1
    /\ writeq[1].data[1] = MXS_COM_QUERY
    /\ ~gwbuf_is_ignorable(writeq)


\* the same for a stored query that does not begin with a COM_CHANGE_USER
\* and is not ignorable
C40_StoredWritten ==
    [][(/\ h_event'.op = "ready_for_reading"
        /\ srv.reuse
        /\ m_stored_query # <<>>
        /\ m_stored_query[1].data[1] # MXS_COM_CHANGE_USER
        /\ ~gwbuf_is_ignorable(m_stored_query)
        /\ m_stored_query' = <<>>
        /\ ~dcb'.hangup_event) =>
          writeq' = writeq \o m_stored_query]_vars

====
